---- MODULE Spec2Model ----
\* Verification model of the PropGuard trust scorer
\* (backend/app/utils/propguard_scorer.py, class QualitativeTrustScorer).
\*
\* Numbers.  Python floats are modelled as exact rationals [n, d] with d > 0;
\* Python's None is the record None.  round(x, 2) is modelled as rounding to
\* the nearest hundredth.  Floating-point representation error is not modelled.
EXTENDS Integers, Sequences, FiniteSets, TLC

\* ------------------------------------------------------------------ bounds
\* Largest count in a metrics record handed to a component scorer.
MaxCount == 3
\* Largest count in a metrics record handed to evaluate_listing, in a line of
\* a text report and among the keys of a platform mapping.
MaxEvalCount == 2
\* Largest number of lines of a text report.
MaxLines == 2
\* Largest number of evaluate_listing calls made on one scorer instance.
MaxCalls == 3
\* Largest number of scores recorded in one score history.
MaxRecorded == 105
\* The first MaxVaried scores of a history are chosen freely, the later ones
\* follow a fixed pattern.
MaxVaried == 2
\* Longest list of URLs handed to validate_images.
MaxUrls == 2
\* Largest number of validate_images calls made on one validator instance.
MaxValidations == 2
\* Largest number of evaluate_listing calls made on one LLM scorer instance.
MaxEvaluations == 2

\* --------------------------------------------------------------- rationals
Rat(a, b) == [n |-> a, d |-> b]
None == [n |-> 0, d |-> 0]
IsNone(q) == q.d = 0
RLt(a, b) == a.n * b.d < b.n * a.d
RLe(a, b) == a.n * b.d <= b.n * a.d
REq(a, b) == a.n * b.d = b.n * a.d
RAdd(a, b) == Rat(a.n * b.d + b.n * a.d, a.d * b.d)
RSub(a, b) == Rat(a.n * b.d - b.n * a.d, a.d * b.d)
RMul(a, b) == Rat(a.n * b.n, a.d * b.d)
\* Python min(a, b) / max(a, b): the first argument wins a tie.
PyMin(a, b) == IF RLt(b, a) THEN b ELSE a
PyMax(a, b) == IF RLt(a, b) THEN b ELSE a
\* round(q, 2): the nearest multiple of 1/100.
Round2(q) == Rat((200 * q.n + q.d) \div (2 * q.d), 100)

\* ------------------------------------------------------------ enumerations
AUTO_APPROVE == "AUTO_APPROVE"
MANUAL_CHECK == "MANUAL_CHECK"
AUTO_REJECT == "AUTO_REJECT"
ListingStatus == {AUTO_APPROVE, MANUAL_CHECK, AUTO_REJECT}

\* The keys of component_scores, in the insertion order of evaluate_listing.
SignalOrder == <<"image_validation", "agent_verification", "cross_platform">>
Signals == {SignalOrder[i] : i \in 1..Len(SignalOrder)}

\* ------------------------------------------------------------------- state
VARIABLES
    weights,            \* self.weights
    thresholds,         \* self.thresholds
    recent_scores,      \* self.recent_scores
    op,                 \* the method called
    pc,                 \* "call" before the method runs, "done" after
    image_validation,   \* image argument (a signal value or a metrics record)
    agent_verification, \* raw agent argument of evaluate_listing
    agent_metrics,      \* AgentVerificationMetrics argument / local
    cross_platform,     \* platform argument (a signal value or a metrics record)
    component_scores,   \* component_scores argument / local
    total_score,        \* total_score argument / local / result
    status,             \* status local / result
    score_ret,          \* the {'score', 'assessment'} dict a component scorer returned
    assessment,         \* text built by _generate_assessment, one block per entry
    summary,            \* text built by _generate_summary
    recommendations,    \* list returned by _generate_recommendations
    missing_components, \* list returned by _check_missing_components
    result_keys,        \* keys of the dict evaluate_listing returned
    raised,             \* exception that ended the call ("" when it returned)
    raw_data,           \* raw validator output handed to a metrics converter
    metrics_ret,        \* the metrics record a converter returned
    history,            \* the evaluate_listing calls made on the instance so far
    recorded,           \* every score handed to _update_score_history, in order
    distribution,       \* what _get_score_distribution returned
    thread,             \* where each thread stands in _update_score_history
    agent_validation_data, \* AgentValidator.agent_validation_data
    image_validation_data, \* ImageValidator.image_validation_data
    image_urls,         \* argument of the last validate_images call
    validator_ret,      \* what the last validator call returned
    review_analysis,    \* review argument of the LLM scorer's evaluate_listing
    llm                 \* what the language model answered during the last call

vars == <<weights, thresholds, recent_scores, op, pc, image_validation,
          agent_verification, agent_metrics, cross_platform, component_scores,
          total_score, status, score_ret, assessment, summary, recommendations,
          missing_components, result_keys, raised, raw_data, metrics_ret,
          history, recorded, distribution, thread, agent_validation_data,
          image_validation_data, image_urls, validator_ret, review_analysis, llm>>

\* The validators' fields and results, and what only the LLM scorer's
\* evaluate_listing takes.
validator_vars ==
    <<agent_validation_data, image_validation_data, image_urls, validator_ret,
      review_analysis, llm>>

\* The variables that only the specifications of call sequences use.
sequence_vars == <<history, recorded, distribution, thread, validator_vars>>

\* ------------------------------------------------------------ value shapes
\* What a caller can hand to evaluate_listing for the image or the platform
\* signal: None, an empty value, a text report (str), or a metrics dataclass.
SignalShapes == {"None", "empty", "text", "metrics"}
\* The completeness checker is written for mappings: besides the above, a
\* mapping without the key it looks for ("nokey") and one holding it
\* ("mapping").
RawShapes == SignalShapes \cup {"nokey", "mapping"}

ImageValidationMetrics(v, dup, s, t) ==
    [shape |-> "metrics", valid_count |-> v, duplicate_count |-> dup,
     suspicious_count |-> s, total_count |-> t]
\* A non-metrics image value (None, "" or a text report) has no count fields;
\* the zeros only keep the record shape uniform and are never read.
ImageValue(sh) ==
    [shape |-> sh, valid_count |-> 0, duplicate_count |-> 0,
     suspicious_count |-> 0, total_count |-> 0]

AgentVerificationMetrics(v, l, r, c) ==
    [is_verified |-> v, has_license |-> l, has_reviews |-> r,
     total_checks_passed |-> c]

CrossPlatformMetrics(c, i, t) ==
    [shape |-> "metrics", consistent_count |-> c, inconsistent_count |-> i,
     total_platforms |-> t]
PlatformValue(sh) ==
    [shape |-> sh, consistent_count |-> 0, inconsistent_count |-> 0,
     total_platforms |-> 0]

\* The raw agent signal: None, {}, a mapping without the 'agent_verification'
\* key, a mapping whose 'agent_verification' value cannot be read
\* ("malformed": lister_verification is None or the value is no mapping), or
\* a readable mapping.  A readable mapping is described by the tokens that
\* occur (case-insensitively) in lister_verification (verified, unavailable,
\* license) and in str(additional_checks) (review, experience, specialization).
AgentShapes == {"None", "empty", "nokey", "malformed", "dict"}
AgentValue(sh, ver, una, lic, rev, exp, spe) ==
    [shape |-> sh, verified |-> ver, unavailable |-> una, license |-> lic,
     review |-> rev, experience |-> exp, specialization |-> spe]
AgentAbsent(sh) == AgentValue(sh, FALSE, FALSE, FALSE, FALSE, FALSE, FALSE)

\* The dict a component scorer returns, or the exception it raised.
Ret(sc, a) == [raised |-> "", score |-> sc, assessment |-> a]
Raise(e) == [raised |-> e, score |-> None, assessment |-> ""]

BoolInt(b) == IF b THEN 1 ELSE 0

\* -------------------------------------------------------- component scorers
_get_image_assessment(score, metrics) ==
    IF metrics.suspicious_count > 0
    THEN "CRITICAL: Presence of suspicious images"
    ELSE IF metrics.duplicate_count > 0
    THEN "Moderate concerns: Presence of duplicates"
    ELSE IF metrics.suspicious_count > 0
    THEN "Moderate concerns: Presence of suspicious images"
    ELSE "Good quality with proper validation"

_get_agent_assessment(score, metrics) ==
    IF ~metrics.is_verified THEN "Failed verification"
    ELSE IF ~metrics.has_license THEN "Incomplete verification requiring checks"
    ELSE IF ~metrics.has_reviews THEN "Incomplete verification requiring checks"
    ELSE "Verified with varying degrees of confidence"

_get_platform_assessment(score, metrics) ==
    IF metrics.inconsistent_count > 0
    THEN "CRITICAL: Major inconsistencies found across platforms"
    ELSE IF metrics.inconsistent_count > 0
    THEN "Minor inconsistencies requiring verification"
    ELSE "Consistent across platforms"

\* Mutant: a duplicate is penalised like a suspicious image (factor 0.5 lost).
ImageScoreBodyFullDuplicatePenalty(metrics) ==
    IF metrics.total_count = 0 THEN Raise("ZeroDivisionError")
    ELSE
    LET raw == Rat(100 * metrics.valid_count - 100 * metrics.duplicate_count
                       - 100 * metrics.suspicious_count, metrics.total_count)
        score == PyMax(Rat(0, 1), PyMin(Rat(100, 1), raw))
    IN  Ret(score, _get_image_assessment(score, metrics))

\* Mutant: the duplicate penalty is added instead of subtracted.
ImageScoreBodyDuplicateBonus(metrics) ==
    IF metrics.total_count = 0 THEN Raise("ZeroDivisionError")
    ELSE
    LET raw == Rat(200 * metrics.valid_count + 100 * metrics.duplicate_count
                       - 200 * metrics.suspicious_count, 2 * metrics.total_count)
        score == PyMax(Rat(0, 1), PyMin(Rat(100, 1), raw))
    IN  Ret(score, _get_image_assessment(score, metrics))

\* Lines 77-85: the three ratios, the weighted difference and the clamp.
\* The divisions raise ZeroDivisionError on a zero total_count.
ImageScoreBody(metrics) ==
    IF metrics.total_count = 0 THEN Raise("ZeroDivisionError")
    ELSE
    LET valid_ratio == Rat(metrics.valid_count, metrics.total_count)
        duplicate_penalty ==
            RMul(Rat(metrics.duplicate_count, metrics.total_count), Rat(1, 2))
        suspicious_penalty == Rat(metrics.suspicious_count, metrics.total_count)
        raw == RSub(RSub(RMul(valid_ratio, Rat(100, 1)),
                         RMul(duplicate_penalty, Rat(100, 1))),
                    RMul(suspicious_penalty, Rat(100, 1)))
        score == PyMax(Rat(0, 1), PyMin(Rat(100, 1), raw))
    IN  Ret(score, _get_image_assessment(score, metrics))

\* Mutant: the guard on total_count is dropped.
_calculate_image_score_unguarded(metrics) ==
    IF metrics.shape # "metrics" THEN Raise("AttributeError")
    ELSE ImageScoreBody(metrics)

_calculate_image_score(metrics) ==
    IF metrics.shape # "metrics" THEN Raise("AttributeError")
    ELSE IF metrics.total_count = 0
    THEN Ret(Rat(0, 1), "No images provided")
    ELSE ImageScoreBody(metrics)

\* Mutant: the base score is not scaled by total_checks_passed / 3.
_calculate_agent_score_unscaled(metrics) ==
    LET base_score == BoolInt(metrics.is_verified) * 50
                      + BoolInt(metrics.has_license) * 30
                      + BoolInt(metrics.has_reviews) * 20
        score == PyMin(Rat(100, 1), Rat(base_score, 1))
    IN  Ret(score, _get_agent_assessment(score, metrics))

_calculate_agent_score(metrics) ==
    LET base_score == BoolInt(metrics.is_verified) * 50
                      + BoolInt(metrics.has_license) * 30
                      + BoolInt(metrics.has_reviews) * 20
        score == PyMin(Rat(100, 1),
                       RMul(Rat(base_score, 1), Rat(metrics.total_checks_passed, 3)))
    IN  Ret(score, _get_agent_assessment(score, metrics))

\* Lines 106-110: the ratio (ZeroDivisionError on a zero total_platforms).
PlatformScoreBody(metrics) ==
    IF metrics.total_platforms = 0 THEN Raise("ZeroDivisionError")
    ELSE
    LET consistency_ratio == Rat(metrics.consistent_count, metrics.total_platforms)
        score == RMul(consistency_ratio, Rat(100, 1))
    IN  Ret(score, _get_platform_assessment(score, metrics))

_calculate_platform_score(metrics) ==
    IF metrics.shape # "metrics" THEN Raise("AttributeError")
    ELSE IF metrics.total_platforms = 0
    THEN Ret(Rat(0, 1), "No cross-platform data available")
    ELSE PlatformScoreBody(metrics)

\* --------------------------------------------------------------- python dicts
\* A dict is a function from its keys; {} is the function with no keys.
EmptyDict == [k \in {} |-> None]
Get(dict, key, default) == IF key \in DOMAIN dict THEN dict[key] ELSE default

\* An entry of component_scores: a {'score', 'assessment'} dict, or a falsy
\* value ({} or None) in its place.
Entry(sc, a) == [empty |-> FALSE, score |-> sc, assessment |-> a]
EmptyEntry == [empty |-> TRUE, score |-> None, assessment |-> ""]
\* scores.get('score', 0)
EntryScore(e) == IF e.empty THEN Rat(0, 1) ELSE e.score
\* component_scores.get(component, {}).get('score', 0)
ScoreOf(scores, component) ==
    IF component \in DOMAIN scores THEN EntryScore(scores[component]) ELSE Rat(0, 1)

\* ------------------------------------------------------------------ aggregator
\* Mutant: the weights are applied as fractions of 100.
WeightOfNormalised(w, component) ==
    IF component \in DOMAIN w THEN Rat(w[component], 100) ELSE Rat(1, 4)

\* self.weights.get(component, 0.25)
WeightOf(w, component) ==
    IF component \in DOMAIN w THEN Rat(w[component], 1) ELSE Rat(1, 4)

\* Lines 115-118: the entries that are truthy and whose score is not None.
ValidComponents(scores) ==
    {c \in DOMAIN scores : ~scores[c].empty /\ ~IsNone(scores[c].score)}

RECURSIVE WeightedSum(_, _, _, _)
WeightedSum(w, scores, valid, i) ==
    IF i > Len(SignalOrder) THEN Rat(0, 1)
    ELSE LET c == SignalOrder[i]
             rest == WeightedSum(w, scores, valid, i + 1)
         IN  IF c \in valid
             THEN RAdd(RMul(WeightOf(w, c), EntryScore(scores[c])), rest)
             ELSE rest

_calculate_total_score(scores) ==
    LET valid_components == ValidComponents(scores)
    IN  IF valid_components = {} THEN Rat(0, 1)
        ELSE Round2(WeightedSum(weights, scores, valid_components, 1))

\* ------------------------------------------------------------ status classifier
\* Mutant: the thresholds are exclusive.
_determine_status_exclusive(total) ==
    IF RLt(Rat(thresholds["auto_approve"], 1), total) THEN AUTO_APPROVE
    ELSE IF RLt(Rat(thresholds["manual_check"], 1), total) THEN MANUAL_CHECK
    ELSE AUTO_REJECT

_determine_status(total) ==
    IF RLe(Rat(thresholds["auto_approve"], 1), total) THEN AUTO_APPROVE
    ELSE IF RLe(Rat(thresholds["manual_check"], 1), total) THEN MANUAL_CHECK
    ELSE AUTO_REJECT

\* -------------------------------------------------------- text the scorer builds
\* A recommendation.  The header is the f-string
\* "Overall Trust Score: {total_score}/100"; `total` is the value formatted into
\* it.  The other recommendations are fixed texts and carry no value.
Header(total) == [text |-> "Overall Trust Score: {total_score}/100", total |-> total]
Rec(text) == [text |-> text, total |-> None]

ImageCritical == Rec("CRITICAL: Insufficient or suspicious property images. Request complete image set and verify authenticity")
ImageLow == Rec("Request additional high-quality property images and verify their authenticity")
AgentUrgent == Rec("URGENT: Agent verification failed. Verify credentials and licensing information immediately")
AgentLow == Rec("Additional agent verification required. Check professional history and credentials")
PlatformCritical == Rec("CRITICAL: Major inconsistencies found across platforms. Detailed cross-reference check required")
PlatformLow == Rec("Cross-reference listing details across multiple platforms to verify consistency")
StandardNote == Rec("Perform standard verification procedures before proceeding")
AllPassedNote == Rec("All validation checks passed. Proceed with standard processing")

\* The entries of a dict in insertion order (the signals' fixed order).
RECURSIVE ItemsFrom(_, _)
ItemsFrom(scores, i) ==
    IF i > Len(SignalOrder) THEN <<>>
    ELSE IF SignalOrder[i] \in DOMAIN scores
         THEN <<SignalOrder[i]>> \o ItemsFrom(scores, i + 1)
         ELSE ItemsFrom(scores, i + 1)
Keys(scores) == ItemsFrom(scores, 1)

_generate_assessment(scores) ==
    [i \in 1..Len(Keys(scores)) |->
        [component |-> Keys(scores)[i],
         assessment |-> scores[Keys(scores)[i]].assessment,
         score |-> scores[Keys(scores)[i]].score]]

\* The summary: its first line (total score and status) and one line per
\* entry of validation_data['component_evaluations'].
_generate_summary(validation_data) ==
    LET total == Get(validation_data, "total_score", Rat(0, 1))
        st == Get(validation_data, "status", MANUAL_CHECK)
        evaluations == Get(validation_data, "component_evaluations", EmptyDict)
    IN  [total_score |-> total, status |-> st,
         lines |-> [i \in 1..Len(Keys(evaluations)) |->
                      [component |-> Keys(evaluations)[i],
                       score |-> EntryScore(evaluations[Keys(evaluations)[i]])]]]

\* all(lo <= score.get('score', 0) < hi for score in component_scores.values())
AllScoresIn(scores, lo, hi) ==
    \A c \in DOMAIN scores :
        /\ RLe(Rat(lo, 1), EntryScore(scores[c]))
        /\ RLt(EntryScore(scores[c]), Rat(hi, 1))
\* all(score.get('score', 0) >= lo for score in component_scores.values())
AllScoresAtLeast(scores, lo) ==
    \A c \in DOMAIN scores : RLe(Rat(lo, 1), EntryScore(scores[c]))

\* Returns [raised, list].  Comparing a None score with a number raises
\* TypeError.
_generate_recommendations(validation_data) ==
    LET scores == Get(validation_data, "component_evaluations", EmptyDict)
        total == Get(validation_data, "total_score", Rat(0, 1))
        r0 == <<Header(total)>>
        image_score == ScoreOf(scores, "image_validation")
        r1 == IF RLt(image_score, Rat(30, 1)) THEN Append(r0, ImageCritical)
              ELSE IF RLt(image_score, Rat(70, 1)) THEN Append(r0, ImageLow)
              ELSE r0
        agent_score == ScoreOf(scores, "agent_verification")
        r2 == IF RLe(agent_score, Rat(0, 1)) THEN Append(r1, AgentUrgent)
              ELSE IF RLt(agent_score, Rat(50, 1)) THEN Append(r1, AgentLow)
              ELSE r1
        platform_score == ScoreOf(scores, "cross_platform")
        r3 == IF RLt(platform_score, Rat(30, 1)) THEN Append(r2, PlatformCritical)
              ELSE IF RLt(platform_score, Rat(50, 1)) THEN Append(r2, PlatformLow)
              ELSE r2
        r4 == IF AllScoresIn(scores, 30, 80) THEN Append(r3, StandardNote) ELSE r3
        r5 == IF r4 = <<>> /\ AllScoresAtLeast(scores, 80)
              THEN Append(r4, AllPassedNote) ELSE r4
    IN  IF \E c \in DOMAIN scores : ~scores[c].empty /\ IsNone(scores[c].score)
        THEN [raised |-> "TypeError", list |-> <<>>]
        ELSE [raised |-> "", list |-> r5]

\* ---------------------------------------------------------- completeness checker
\* `key in value` for the image / platform argument: a str is searched for the
\* key as a substring (the validators' reports never contain it), and a
\* dataclass instance is not a container (TypeError).
\* Returns [raised, list].
_check_missing_components(image, agent, platform) ==
    LET image_missing == image.shape \in {"None", "empty", "text", "nokey"}
        agent_missing == agent.shape \in {"None", "empty", "nokey"}
        platform_missing == platform.shape \in {"None", "empty", "text", "nokey"}
        m1 == IF image_missing THEN <<"image_validation">> ELSE <<>>
        m2 == IF agent_missing THEN Append(m1, "agent_verification") ELSE m1
        m3 == IF platform_missing THEN Append(m2, "cross_platform") ELSE m2
    IN  IF image.shape = "metrics" \/ platform.shape = "metrics"
        THEN [raised |-> "TypeError", list |-> <<>>]
        ELSE [raised |-> "", list |-> m3]

\* ------------------------------------------------------------ metrics extraction
\* The image validator's report is text, one labelled line after the other.
\* A line is described by the label found in it (the first of the four that
\* the if/elif chain of lines 225-232 matches, "other" when none does) and by
\* what int(line.split(':')[1].strip()) gives: the integer n, or ValueError /
\* IndexError (parses = FALSE).
ImageLabels == {"Valid images:", "Duplicate images:", "Suspicious images:",
                "Total images processed:"}
Line(label, parses, n) == [label |-> label, parses |-> parses, n |-> n]
\* The data argument: None, a str given by its lines, or a value that is no
\* str ("other").
ImageReport(sh, lines) == [shape |-> sh, lines |-> lines]

MetricsDict(v, dup, s, t) ==
    [valid |-> v, duplicates |-> dup, suspicious |-> s, total |-> t]
MetricsKey(label) ==
    IF label = "Valid images:" THEN "valid"
    ELSE IF label = "Duplicate images:" THEN "duplicates"
    ELSE IF label = "Suspicious images:" THEN "suspicious"
    ELSE "total"

\* The loop of lines 224-232 from line i on: the metrics dict it ends with,
\* or the exception a line raised.
RECURSIVE ParseLines(_, _, _)
ParseLines(lines, i, metrics) ==
    IF i > Len(lines) THEN [raised |-> "", metrics |-> metrics]
    ELSE IF lines[i].label \notin ImageLabels THEN ParseLines(lines, i + 1, metrics)
    ELSE IF ~lines[i].parses THEN [raised |-> "ValueError", metrics |-> metrics]
    ELSE ParseLines(lines, i + 1,
                    [metrics EXCEPT ![MetricsKey(lines[i].label)] = lines[i].n])

\* Mutant: a failed parse keeps the counts read so far.
_convert_to_image_metrics_partial(data) ==
    LET parsed == IF data.shape = "text"
                  THEN ParseLines(data.lines, 1, MetricsDict(0, 0, 0, 0))
                  ELSE [raised |-> "", metrics |-> MetricsDict(0, 0, 0, 0)]
        m == parsed.metrics
    IN  ImageValidationMetrics(
            m.valid, m.duplicates, m.suspicious,
            IF m.total # 0 THEN m.total
            ELSE m.valid + m.duplicates + m.suspicious)

_convert_to_image_metrics(data) ==
    LET parsed == IF data.shape = "text"
                  THEN ParseLines(data.lines, 1, MetricsDict(0, 0, 0, 0))
                  ELSE [raised |-> "", metrics |-> MetricsDict(0, 0, 0, 0)]
        m == parsed.metrics
    IN  IF parsed.raised # "" THEN ImageValidationMetrics(0, 0, 0, 0)
        ELSE ImageValidationMetrics(
                 m.valid, m.duplicates, m.suspicious,
                 IF m.total # 0 THEN m.total
                 ELSE m.valid + m.duplicates + m.suspicious)

\* The platform data: None, an empty value, a non-empty str ("text") or a
\* non-empty mapping ("dict").  A mapping is described by how many of its
\* keys have a list/dict value and a name holding 'inconsistent' (and with
\* it 'consistent'), how many have a list/dict value and a name holding
\* 'consistent' only, how many other keys it has, and whether some key with a
\* list/dict value is no str (k.lower() raises AttributeError).
PlatformShapes == {"None", "empty", "text", "dict"}
PlatformData(sh, c, i, o, bad) ==
    [shape |-> sh, consistent_keys |-> c, inconsistent_keys |-> i,
     other_keys |-> o, bad_key |-> bad]

\* Mutant: total_platforms is always the number of keys.
_convert_to_platform_metrics_key_total(data) ==
    IF data.shape \in {"None", "empty"} THEN CrossPlatformMetrics(0, 0, 0)
    ELSE IF data.shape = "text" \/ data.bad_key THEN CrossPlatformMetrics(0, 0, 0)
    ELSE CrossPlatformMetrics(data.consistent_keys + data.inconsistent_keys,
                              data.inconsistent_keys,
                              data.consistent_keys + data.inconsistent_keys
                                + data.other_keys)

_convert_to_platform_metrics(data) ==
    IF data.shape \in {"None", "empty"} THEN CrossPlatformMetrics(0, 0, 0)
    ELSE IF data.shape = "text" \/ data.bad_key THEN CrossPlatformMetrics(0, 0, 0)
    ELSE
    LET consistent == data.consistent_keys + data.inconsistent_keys
        inconsistent == data.inconsistent_keys
        keys == data.consistent_keys + data.inconsistent_keys + data.other_keys
        total == IF consistent + inconsistent # 0 THEN consistent + inconsistent
                 ELSE keys
    IN  CrossPlatformMetrics(consistent, inconsistent, total)

_convert_to_agent_metrics(data) ==
    IF data.shape \in {"None", "empty", "nokey"}
    THEN AgentVerificationMetrics(FALSE, FALSE, FALSE, 0)
    ELSE IF data.shape = "malformed"
    THEN AgentVerificationMetrics(FALSE, FALSE, FALSE, 0)
    ELSE
    LET is_verified == data.verified /\ ~data.unavailable
        has_license == data.license
        has_reviews == data.review
        total_checks == BoolInt(is_verified) + BoolInt(has_license)
                        + BoolInt(has_reviews) + BoolInt(data.experience)
                        + BoolInt(data.specialization)
    IN  AgentVerificationMetrics(is_verified, has_license, has_reviews, total_checks)

\* -------------------------------------------------------------- evaluate_listing
NoRet == [raised |-> "", score |-> None, assessment |-> ""]
NoSummary == [total_score |-> None, status |-> "", lines |-> <<>>]
ResultKeys == {"total_score", "status", "assessment", "component_evaluations",
               "summary", "recommendations", "missing_components"}

\* What a call of evaluate_listing leaves behind: the values it computed, in
\* the order of lines 49-69, up to the point where it returned or raised.
\* result_keys holds the keys of the returned dict and is empty when the call
\* raised (nothing is returned then).
Frame(am, cs, ts, st, asmt, summ, recs, miss, keys, exc) ==
    [agent_metrics |-> am, component_scores |-> cs, total_score |-> ts,
     status |-> st, assessment |-> asmt, summary |-> summ,
     recommendations |-> recs, missing_components |-> miss,
     result_keys |-> keys, raised |-> exc]

evaluate_listing(image, agent, platform) ==
    LET am == _convert_to_agent_metrics(agent)
        img == _calculate_image_score(image)
        agt == _calculate_agent_score(am)
        plt == _calculate_platform_score(platform)
        cs == [c \in Signals |->
                 IF c = "image_validation" THEN Entry(img.score, img.assessment)
                 ELSE IF c = "agent_verification" THEN Entry(agt.score, agt.assessment)
                 ELSE Entry(plt.score, plt.assessment)]
        total == _calculate_total_score(cs)
        st == _determine_status(total)
        asmt == _generate_assessment(cs)
        summ == _generate_summary(
                    [total_score |-> total, status |-> st, component_scores |-> cs])
        recs == _generate_recommendations(
                    [trust_score |-> [total_score |-> total, component_scores |-> cs]])
        miss == _check_missing_components(image, agent, platform)
        failed(exc) == Frame(am, EmptyDict, None, "", <<>>, NoSummary, <<>>, <<>>, {}, exc)
    IN  IF img.raised # "" THEN failed(img.raised)
        ELSE IF agt.raised # "" THEN failed(agt.raised)
        ELSE IF plt.raised # "" THEN failed(plt.raised)
        ELSE IF recs.raised # ""
        THEN Frame(am, cs, total, st, asmt, summ, <<>>, <<>>, {}, recs.raised)
        ELSE IF miss.raised # ""
        THEN Frame(am, cs, total, st, asmt, summ, recs.list, <<>>, {}, miss.raised)
        ELSE Frame(am, cs, total, st, asmt, summ, recs.list, miss.list, ResultKeys, "")

\* ------------------------------------------------------------------ input sets
Counts(k) == 0..k
ImageMetricsSet(k) ==
    {ImageValidationMetrics(v, dup, s, t) :
        v \in Counts(k), dup \in Counts(k), s \in Counts(k), t \in Counts(k)}
AgentMetricsSet ==
    {AgentVerificationMetrics(v, l, r, c) :
        v \in BOOLEAN, l \in BOOLEAN, r \in BOOLEAN, c \in 0..5}
PlatformMetricsSet(k) ==
    {CrossPlatformMetrics(c, i, t) :
        c \in Counts(k), i \in Counts(k), t \in Counts(k)}

\* evaluate_listing is given well-formed metrics records: the counted images
\* (platforms) do not exceed the total.
ImageInputs ==
    {ImageValue(sh) : sh \in SignalShapes \ {"metrics"}}
        \cup {m \in ImageMetricsSet(MaxEvalCount) :
                m.valid_count + m.duplicate_count + m.suspicious_count
                    <= m.total_count}
PlatformInputs ==
    {PlatformValue(sh) : sh \in SignalShapes \ {"metrics"}}
        \cup {m \in PlatformMetricsSet(MaxEvalCount) :
                m.consistent_count + m.inconsistent_count <= m.total_platforms}
AgentInputs ==
    {AgentAbsent(sh) : sh \in AgentShapes \ {"dict"}}
        \cup {AgentValue("dict", ver, una, lic, rev, exp, spe) :
                ver \in BOOLEAN, una \in BOOLEAN, lic \in BOOLEAN,
                rev \in BOOLEAN, exp \in BOOLEAN, spe \in BOOLEAN}

\* Text reports handed to the image converter: up to MaxLines lines, each with
\* one of the four labels or none, and a value that is a count or no integer.
ReportLines ==
    {Line("other", FALSE, 0)}
        \cup {Line(l, TRUE, n) : l \in ImageLabels, n \in Counts(MaxEvalCount)}
        \cup {Line(l, FALSE, 0) : l \in ImageLabels}
ImageReports ==
    {ImageReport("None", <<>>), ImageReport("other", <<>>)}
        \cup {ImageReport("text", ls) :
                ls \in UNION {[1..k -> ReportLines] : k \in 0..MaxLines}}
\* Values handed to the platform converter.
PlatformDataSet ==
    {PlatformData(sh, 0, 0, 0, FALSE) : sh \in PlatformShapes \ {"dict"}}
        \cup {d \in {PlatformData("dict", c, i, o, bad) :
                        c \in Counts(MaxEvalCount), i \in Counts(MaxEvalCount),
                        o \in Counts(MaxEvalCount), bad \in BOOLEAN} :
                d.consistent_keys + d.inconsistent_keys + d.other_keys > 0
                    \/ d.bad_key}

\* Raw validator outputs handed to the completeness checker.
RawImageInputs == {ImageValue(sh) : sh \in RawShapes}
RawPlatformInputs == {PlatformValue(sh) : sh \in RawShapes}
RawAgentInputs ==
    {AgentAbsent(sh) : sh \in AgentShapes \ {"dict"}}
        \cup {AgentValue("dict", TRUE, FALSE, TRUE, TRUE, FALSE, FALSE)}

\* Component scores handed to the aggregator: k/MaxCount of 100.
ScoreSamples == {Rat(100 * k, MaxCount) : k \in 0..MaxCount}
EntrySamples == {EmptyEntry, Entry(None, "")} \cup {Entry(q, "") : q \in ScoreSamples}
\* Every dict over a subset of the signals with entries from a set.
Dicts(entries) == UNION {[D -> entries] : D \in SUBSET Signals}

\* Component scores handed to the recommendation generator: around each of
\* its thresholds.
RecScoreSamples == {Rat(k, 1) : k \in {0, 1, 29, 30, 49, 50, 69, 70, 79, 80, 100}}
RecEntrySamples == {Entry(q, "") : q \in RecScoreSamples}

\* Totals handed to the recommendation generator.
RecTotalSamples == {Rat(0, 1), Rat(943650, 100)}

\* Totals handed to the status classifier, in hundredths.
TotalSamples ==
    {Rat(h, 100) : h \in {0, 1, 3999, 4000, 4001, 7999, 8000, 8001, 10000, 943650}}

\* ---------------------------------------------------------------------- actions
\* A behaviour is one call on a freshly constructed scorer: the initial state
\* holds the constructed fields, the method about to be called (op) and its
\* arguments (pc = "call"); the method's action runs it to its return or
\* raise (pc = "done").
NoImage == ImageValue("None")
NoAgent == AgentAbsent("None")
NoAgentMetrics == AgentVerificationMetrics(FALSE, FALSE, FALSE, 0)
NoPlatform == PlatformValue("None")
NoData == ImageReport("None", <<>>)
NoMetrics == [shape |-> "none"]
NoDistribution == [text |-> "", avg |-> None, low |-> 0, med |-> 0, high |-> 0]
\* The threads that share one scorer instance.
Threads == {1, 2}

\* ------------------------------------------------------------ agent validator
\* A text the validator stores is described by what the scorers look for in
\* it: whether it is None, and which tokens occur in it (case-insensitively).
Text(ver, una, lic, err) ==
    [is_none |-> FALSE, verified |-> ver, unavailable |-> una, license |-> lic,
     error |-> err]
NoneText ==
    [is_none |-> TRUE, verified |-> FALSE, unavailable |-> FALSE, license |-> FALSE,
     error |-> FALSE]
\* The value under 'additional_checks', by the tokens str() of it holds; the
\* key can be absent.
Checks(rev, exp, spe) ==
    [present |-> TRUE, review |-> rev, experience |-> exp, specialization |-> spe]
EmptyChecks == Checks(FALSE, FALSE, FALSE)
NoChecks ==
    [present |-> FALSE, review |-> FALSE, experience |-> FALSE,
     specialization |-> FALSE]

\* The mapping under 'agent_verification'; error = "" when it has no 'error'
\* key.  "<None>" stands for Python's None, "None" is the str.
PyNone == "<None>"
AgentRecord(lv, src, name, checks, err) ==
    [lister_verification |-> lv, verification_source |-> src, lister_name |-> name,
     additional_checks |-> checks, error |-> err]

\* AgentValidator.__init__, lines 20-26.
AgentValidatorInit == AgentRecord(NoneText, PyNone, PyNone, EmptyChecks, "")

_generate_validation_data(data) == [kind |-> "agent", agent_verification |-> data]

\* Mutant: the error record says 'Not verified'.
_generate_error_data_not_verified(error_message) ==
    [kind |-> "agent",
     agent_verification |->
         AgentRecord(Text(TRUE, FALSE, FALSE, FALSE), "None", "Unknown", NoChecks,
                     error_message)]

\* 'Verification unavailable': "unavailable" occurs in it, "verified" does not.
_generate_error_data(error_message) ==
    [kind |-> "agent",
     agent_verification |->
         AgentRecord(Text(FALSE, TRUE, FALSE, FALSE), "None", "Unknown", NoChecks,
                     error_message)]

\* What _get_xai_verification and _get_openai_verification come back with: the
\* completion's content, or an exception of the client.
XaiAnswer(content) == [raised |-> "", content |-> content]
XaiFailure(e) == [raised |-> e, content |-> NoneText]
OpenaiAnswer(content) == [raised |-> "", content |-> content]
OpenaiFailure(e) == [raised |-> e, content |-> NoChecks]

\* verify_lister: both external calls come before the update of the
\* instance's data, and any exception ends in the error record.
verify_lister(data, lister_name, xai, openai) ==
    IF xai.raised # ""
    THEN [agent_validation_data |-> data, ret |-> _generate_error_data(xai.raised)]
    ELSE IF openai.raised # ""
    THEN [agent_validation_data |-> data, ret |-> _generate_error_data(openai.raised)]
    ELSE
    LET updated == AgentRecord(xai.content, "X.AI Grok Model + OpenAI", lister_name,
                               openai.content, "")
    IN  [agent_validation_data |-> updated, ret |-> _generate_validation_data(updated)]

\* The validator's result as _convert_to_agent_metrics reads it: the tokens of
\* verification_data.get('lister_verification', '') and of
\* str(verification_data.get('additional_checks', '')); a lister_verification
\* of None has no lower().
AgentSignal(ret) ==
    LET data == ret.agent_verification
    IN  IF data.lister_verification.is_none
        THEN AgentAbsent("malformed")
        ELSE AgentValue("dict", data.lister_verification.verified,
                        data.lister_verification.unavailable,
                        data.lister_verification.license,
                        data.additional_checks.review,
                        data.additional_checks.experience,
                        data.additional_checks.specialization)

\* ------------------------------------------------------------ image validator
\* An average hash is a string of HashLen hexadecimal digits; the model keeps
\* three of them, told apart by how many leading digits are "1".
HashLen == 16
Hash(ones) == [i \in 1..HashLen |-> IF i <= ones THEN "1" ELSE "0"]
\* zip() stops at the shorter of the two.
ZipLen(a, b) == IF Len(a) < Len(b) THEN Len(a) ELSE Len(b)
\* sum(c1 != c2 for c1, c2 in zip(hash1, hash2)), from the i-th pair on.
RECURSIVE Differing(_, _, _)
Differing(hash1, hash2, i) ==
    IF i > ZipLen(hash1, hash2) THEN 0
    ELSE BoolInt(hash1[i] # hash2[i]) + Differing(hash1, hash2, i + 1)

threshold == 8
_is_similar(hash1, hash2) == Differing(hash1, hash2, 1) < threshold

\* What requests.get and Image.open make of a URL: an image with its hash, or
\* an exception.
Urls == {"plain.jpg", "near.jpg", "far.jpg", "broken.jpg"}
Fetch(url) ==
    CASE url = "plain.jpg" -> [raised |-> "", hash |-> Hash(0)]
      [] url = "near.jpg" -> [raised |-> "", hash |-> Hash(7)]
      [] url = "far.jpg" -> [raised |-> "", hash |-> Hash(8)]
      [] OTHER -> [raised |-> "UnidentifiedImageError", hash |-> Hash(0)]

\* ImageValidator.__init__, lines 10-16; processed_at counts the calls in
\* place of the clock.
ImageValidatorInit ==
    [duplicates |-> <<>>, suspicious |-> <<>>, valid |-> <<>>,
     metadata_issues |-> <<>>, processed_at |-> 0]

\* The loop of validate_images from the i-th URL on.
RECURSIVE ValidateFrom(_, _, _, _)
ValidateFrom(data, image_hashes, urls, i) ==
    IF i > Len(urls) THEN data
    ELSE
    LET url == urls[i]
        img == Fetch(url)
    IN  IF img.raised # ""
        THEN ValidateFrom([data EXCEPT !.suspicious =
                               Append(@, [url |-> url, error |-> img.raised])],
                          image_hashes, urls, i + 1)
        ELSE IF \E k \in 1..Len(image_hashes) : _is_similar(img.hash, image_hashes[k])
        THEN ValidateFrom([data EXCEPT !.duplicates = Append(@, url)],
                          image_hashes, urls, i + 1)
        ELSE ValidateFrom([data EXCEPT !.valid = Append(@, url)],
                          Append(image_hashes, img.hash), urls, i + 1)

\* The text report, by the numbers it shows.
_generate_image_validation_data(data) ==
    [kind |-> "report",
     valid |-> Len(data.valid),
     duplicates |-> Len(data.duplicates),
     suspicious |-> Len(data.suspicious),
     total |-> Len(data.valid) + Len(data.duplicates) + Len(data.suspicious),
     processed_at |-> data.processed_at]

validate_images(data, urls) ==
    LET filled == ValidateFrom(data, <<>>, urls, 1)
        stamped == [filled EXCEPT !.processed_at = data.processed_at + 1]
    IN  [image_validation_data |-> stamped,
         ret |-> _generate_image_validation_data(stamped)]

\* Both validators as constructed, and no call made on them yet.
ValidatorsConstructed ==
    /\ agent_validation_data = AgentValidatorInit
    /\ image_validation_data = ImageValidatorInit
NoValidatorRet == [kind |-> "none"]

\* ------------------------------------------------- evaluate_listing (LLM scorer)
\* The keys of validation_data and of component_scores, in insertion order.
ComponentOrder ==
    <<"image_validation", "review_analysis", "agent_verification", "cross_platform">>
Components == {ComponentOrder[i] : i \in 1..Len(ComponentOrder)}

\* What a caller hands over for the image, the review and the platform
\* signal: None, an empty value, the image validator's text report ("report"),
\* a mapping without the key the formatter looks for ("nokey"), a mapping
\* whose record lacks a field the formatter reads ("incomplete"), a complete
\* one ("valid"), one whose text holds the word "error" ("mentions_error");
\* for the platform signal a str ("text", "mentions_error") or a non-empty
\* mapping ("mapping").
Arg(sh) == [shape |-> sh]
\* The agent signal: the same, or what AgentValidator.verify_lister returned.
AgentArg(sh) == [kind |-> sh]

\* A formatted component: the exception the formatter raised, or the str by
\* what line 30 asks of it (is it empty, does it hold "error").
Formatted(is_empty, has_error) ==
    [raised |-> "", empty |-> is_empty, error |-> has_error]
FormatRaises(e) == [raised |-> e, empty |-> TRUE, error |-> FALSE]

\* `'image_validation_data' not in data` is a substring test on a str, and the
\* validator's report does not hold that text.
_format_image_validation(data) ==
    IF data.shape \in {"None", "empty", "nokey", "report"} THEN Formatted(TRUE, FALSE)
    ELSE IF data.shape = "incomplete" THEN FormatRaises("KeyError")
    ELSE Formatted(FALSE, FALSE)

_format_review_analysis(data) ==
    IF data.shape \in {"None", "empty", "nokey"} THEN Formatted(TRUE, FALSE)
    ELSE IF data.shape = "incomplete" THEN FormatRaises("KeyError")
    ELSE Formatted(FALSE, data.shape = "mentions_error")

\* Reads data['additional_checks'], which the validator's error record lacks.
_format_agent_verification(data) ==
    IF data.kind \in {"None", "empty", "nokey"} THEN Formatted(TRUE, FALSE)
    ELSE IF ~data.agent_verification.additional_checks.present
    THEN FormatRaises("KeyError")
    ELSE Formatted(FALSE, data.agent_verification.lister_verification.error)

\* cross_platform is used as it comes: `not value or 'error' in value.lower()`.
PlatformAsGiven(data) ==
    IF data.shape \in {"None", "empty"} THEN Formatted(TRUE, FALSE)
    ELSE IF data.shape = "mapping" THEN FormatRaises("AttributeError")
    ELSE Formatted(FALSE, data.shape = "mentions_error")

\* What llm.invoke came back with: an exception, or a response that the
\* parser it goes to can or cannot read.
ComponentAnswer(sc) == [raised |-> "", parsed |-> TRUE, score |-> sc]
ComponentUnparsed == [raised |-> "", parsed |-> FALSE, score |-> 0]
ComponentRaises == [raised |-> "APIError", parsed |-> FALSE, score |-> 0]
\* weights: component |-> weight in hundredths, for the lines of the response.
WeightAnswer(w) == [raised |-> "", parsed |-> TRUE, weights |-> w]
WeightUnparsed == [raised |-> "", parsed |-> FALSE, weights |-> EmptyDict]
WeightRaises == [raised |-> "APIError", parsed |-> FALSE, weights |-> EmptyDict]
StatusAnswer(st, unc) ==
    [raised |-> "", parsed |-> TRUE, status |-> st, uncertainty |-> unc]
StatusUnparsed ==
    [raised |-> "", parsed |-> FALSE, status |-> MANUAL_CHECK, uncertainty |-> ""]
StatusRaises ==
    [raised |-> "APIError", parsed |-> FALSE, status |-> MANUAL_CHECK,
     uncertainty |-> ""]
Answers(first, comps, w, st) ==
    [assessment |-> first, components |-> comps, weights |-> w, status |-> st]

NoReview == Arg("None")
Asked(exc) == [raised |-> exc]
\* The model has not been asked anything.
NoAnswers ==
    Answers(Asked(""), [c \in Components |-> ComponentUnparsed], WeightUnparsed,
            StatusUnparsed)

\* No call has produced anything yet.
NoResult ==
    /\ status = ""
    /\ score_ret = NoRet
    /\ assessment = <<>>
    /\ summary = NoSummary
    /\ recommendations = <<>>
    /\ missing_components = <<>>
    /\ result_keys = {}
    /\ raised = ""
    /\ metrics_ret = NoMetrics
    /\ history = <<>>
    /\ recorded = <<>>
    /\ distribution = NoDistribution
    /\ thread = [t \in Threads |-> "idle"]
    /\ ValidatorsConstructed
    /\ validator_ret = NoValidatorRet
    /\ image_urls = <<>>
    /\ review_analysis = NoReview
    /\ llm = NoAnswers

\* __init__, lines 31-44, and no result yet.
Constructed ==
    /\ weights = [image_validation |-> 35, agent_verification |-> 35,
                  cross_platform |-> 30]
    /\ thresholds = [auto_approve |-> 80, manual_check |-> 40]
    /\ recent_scores = <<>>
    /\ NoResult

Args(image, agent, am, platform, cs, ts) ==
    /\ image_validation = image
    /\ agent_verification = agent
    /\ agent_metrics = am
    /\ cross_platform = platform
    /\ component_scores = cs
    /\ total_score = ts

NoArgs == Args(NoImage, NoAgent, NoAgentMetrics, NoPlatform, EmptyDict, None)

\* The calls on the scorer that take no raw converter input.
InitScorerCall ==
    \/ /\ op = "_calculate_image_score"
       /\ \E m \in ImageMetricsSet(MaxCount) :
             Args(m, NoAgent, NoAgentMetrics, NoPlatform, EmptyDict, None)
    \/ /\ op = "_calculate_agent_score"
       /\ \E m \in AgentMetricsSet :
             Args(NoImage, NoAgent, m, NoPlatform, EmptyDict, None)
    \/ /\ op = "_calculate_platform_score"
       /\ \E m \in PlatformMetricsSet(MaxCount) :
             Args(NoImage, NoAgent, NoAgentMetrics, m, EmptyDict, None)
    \/ /\ op = "_calculate_total_score"
       /\ \E cs \in Dicts(EntrySamples) :
             Args(NoImage, NoAgent, NoAgentMetrics, NoPlatform, cs, None)
    \/ /\ op = "_determine_status"
       /\ \E t \in TotalSamples :
             Args(NoImage, NoAgent, NoAgentMetrics, NoPlatform, EmptyDict, t)
    \/ /\ op = "_generate_recommendations"
       /\ \E cs \in Dicts(RecEntrySamples), t \in RecTotalSamples :
             Args(NoImage, NoAgent, NoAgentMetrics, NoPlatform, cs, t)
    \/ /\ op = "evaluate_listing"
       /\ \E image \in ImageInputs, agent \in AgentInputs,
             platform \in PlatformInputs :
             Args(image, agent, NoAgentMetrics, platform, EmptyDict, None)
    \/ /\ op = "_check_missing_components"
       /\ \E image \in RawImageInputs, agent \in RawAgentInputs,
             platform \in RawPlatformInputs :
             Args(image, agent, NoAgentMetrics, platform, EmptyDict, None)

Init ==
    /\ Constructed
    /\ pc = "call"
    /\ \/ /\ op = "_convert_to_image_metrics"
          /\ raw_data \in ImageReports
          /\ NoArgs
       \/ /\ op = "_convert_to_agent_metrics"
          /\ raw_data = NoData
          /\ \E agent \in AgentInputs :
                Args(NoImage, agent, NoAgentMetrics, NoPlatform, EmptyDict, None)
       \/ /\ op = "_convert_to_platform_metrics"
          /\ raw_data \in PlatformDataSet
          /\ NoArgs
       \/ /\ raw_data = NoData
          /\ InitScorerCall

\* The call returns or raises; the scorer's fields and the arguments stay.
Return(sr, exc) ==
    /\ pc' = "done"
    /\ score_ret' = sr
    /\ raised' = exc
    /\ UNCHANGED <<weights, thresholds, recent_scores, op, image_validation,
                   agent_verification, cross_platform, raw_data, sequence_vars>>

CalculateImageScore ==
    /\ pc = "call" /\ op = "_calculate_image_score"
    /\ LET r == _calculate_image_score(image_validation)
       IN  Return(r, r.raised)
    /\ UNCHANGED <<metrics_ret, agent_metrics, component_scores, total_score, status, assessment,
                   summary, recommendations, missing_components, result_keys>>

CalculateAgentScore ==
    /\ pc = "call" /\ op = "_calculate_agent_score"
    /\ LET r == _calculate_agent_score(agent_metrics)
       IN  Return(r, r.raised)
    /\ UNCHANGED <<metrics_ret, agent_metrics, component_scores, total_score, status, assessment,
                   summary, recommendations, missing_components, result_keys>>

CalculatePlatformScore ==
    /\ pc = "call" /\ op = "_calculate_platform_score"
    /\ LET r == _calculate_platform_score(cross_platform)
       IN  Return(r, r.raised)
    /\ UNCHANGED <<metrics_ret, agent_metrics, component_scores, total_score, status, assessment,
                   summary, recommendations, missing_components, result_keys>>

CalculateTotalScore ==
    /\ pc = "call" /\ op = "_calculate_total_score"
    /\ total_score' = _calculate_total_score(component_scores)
    /\ Return(NoRet, "")
    /\ UNCHANGED <<metrics_ret, agent_metrics, component_scores, status, assessment, summary,
                   recommendations, missing_components, result_keys>>

DetermineStatus ==
    /\ pc = "call" /\ op = "_determine_status"
    /\ status' = _determine_status(total_score)
    /\ Return(NoRet, "")
    /\ UNCHANGED <<metrics_ret, agent_metrics, component_scores, total_score, assessment, summary,
                   recommendations, missing_components, result_keys>>

GenerateRecommendations ==
    /\ pc = "call" /\ op = "_generate_recommendations"
    /\ LET r == _generate_recommendations(
                    [component_evaluations |-> component_scores,
                     total_score |-> total_score])
       IN  /\ recommendations' = r.list
           /\ Return(NoRet, r.raised)
    /\ UNCHANGED <<metrics_ret, agent_metrics, component_scores, total_score, status, assessment,
                   summary, missing_components, result_keys>>

\* A converter returns its record; it has no other effect.
ReturnMetrics ==
    /\ pc' = "done"
    /\ UNCHANGED <<weights, thresholds, recent_scores, op, image_validation,
                   agent_verification, cross_platform, raw_data, component_scores,
                   total_score, status, score_ret, assessment, summary,
                   recommendations, missing_components, result_keys, raised,
                   sequence_vars>>

ConvertToImageMetrics ==
    /\ pc = "call" /\ op = "_convert_to_image_metrics"
    /\ metrics_ret' = _convert_to_image_metrics(raw_data)
    /\ ReturnMetrics
    /\ UNCHANGED agent_metrics

ConvertToAgentMetrics ==
    /\ pc = "call" /\ op = "_convert_to_agent_metrics"
    /\ agent_metrics' = _convert_to_agent_metrics(agent_verification)
    /\ ReturnMetrics
    /\ UNCHANGED metrics_ret

ConvertToPlatformMetrics ==
    /\ pc = "call" /\ op = "_convert_to_platform_metrics"
    /\ metrics_ret' = _convert_to_platform_metrics(raw_data)
    /\ ReturnMetrics
    /\ UNCHANGED agent_metrics

CheckMissingComponents ==
    /\ pc = "call" /\ op = "_check_missing_components"
    /\ LET r == _check_missing_components(image_validation, agent_verification,
                                          cross_platform)
       IN  /\ missing_components' = r.list
           /\ Return(NoRet, r.raised)
    /\ UNCHANGED <<metrics_ret, agent_metrics, component_scores, total_score, status, assessment,
                   summary, recommendations, result_keys>>

EvaluateListing ==
    /\ pc = "call" /\ op = "evaluate_listing"
    /\ \E f \in {evaluate_listing(image_validation, agent_verification,
                                    cross_platform)} :
           /\ agent_metrics' = f.agent_metrics
           /\ component_scores' = f.component_scores
           /\ total_score' = f.total_score
           /\ status' = f.status
           /\ assessment' = f.assessment
           /\ summary' = f.summary
           /\ recommendations' = f.recommendations
           /\ missing_components' = f.missing_components
           /\ result_keys' = f.result_keys
           /\ Return(NoRet, f.raised)
    /\ UNCHANGED metrics_ret

Next ==
    \/ CalculateImageScore
    \/ CalculateAgentScore
    \/ CalculatePlatformScore
    \/ CalculateTotalScore
    \/ DetermineStatus
    \/ GenerateRecommendations
    \/ CheckMissingComponents
    \/ ConvertToImageMetrics
    \/ ConvertToAgentMetrics
    \/ ConvertToPlatformMetrics
    \/ EvaluateListing

Spec == Init /\ [][Next]_vars

\* ------------------------------------------- evaluations on one scorer instance
\* A behaviour is a sequence of evaluate_listing calls on one constructed
\* scorer, each with its own arguments; history keeps every call's arguments
\* and what it computed.
InitSequence ==
    /\ Constructed
    /\ pc = "done"
    /\ op = "__init__"
    /\ raw_data = NoData
    /\ NoArgs

\* Mutant: evaluate_listing records the total in the score history.
FieldsAfterEvaluateRecording(total) ==
    [weights |-> weights, thresholds |-> thresholds,
     recent_scores |-> Append(recent_scores, total)]

\* The scorer's fields after evaluate_listing: lines 46-70 assign to none of
\* them.
FieldsAfterEvaluate(total) ==
    [weights |-> weights, thresholds |-> thresholds, recent_scores |-> recent_scores]

\* Arguments of the calls of a sequence.
SequenceImages == {ImageValue("None"), ImageValidationMetrics(2, 0, 0, 2)}
SequenceAgents ==
    {AgentAbsent("None"), AgentValue("dict", TRUE, FALSE, TRUE, TRUE, FALSE, FALSE)}
SequencePlatforms == {PlatformValue("text"), CrossPlatformMetrics(1, 1, 2)}

Evaluate(image, agent, platform) ==
    /\ Len(history) < MaxCalls
    /\ \E f \in {evaluate_listing(image, agent, platform)} :
       \E after \in {FieldsAfterEvaluate(f.total_score)} :
           /\ weights' = after.weights
           /\ thresholds' = after.thresholds
           /\ recent_scores' = after.recent_scores
           /\ agent_metrics' = f.agent_metrics
           /\ component_scores' = f.component_scores
           /\ total_score' = f.total_score
           /\ status' = f.status
           /\ assessment' = f.assessment
           /\ summary' = f.summary
           /\ recommendations' = f.recommendations
           /\ missing_components' = f.missing_components
           /\ result_keys' = f.result_keys
           /\ raised' = f.raised
           /\ history' = Append(history,
                                [image_validation |-> image,
                                 agent_verification |-> agent,
                                 cross_platform |-> platform, result |-> f])
    /\ op' = "evaluate_listing"
    /\ pc' = "done"
    /\ image_validation' = image
    /\ agent_verification' = agent
    /\ cross_platform' = platform
    /\ UNCHANGED <<score_ret, raw_data, metrics_ret, recorded, distribution, thread,
                   validator_vars>>

EvaluateNext ==
    \E image \in SequenceImages, agent \in SequenceAgents,
       platform \in SequencePlatforms : Evaluate(image, agent, platform)

NextSequence == EvaluateNext

SpecSequence == InitSequence /\ [][NextSequence]_vars

\* ------------------------------------------------- score history (LLM scorer)
\* src/backend_textfile_version/propguard_scorer.py: the scorer that keeps a
\* window of the scores it produced.  Scores are whole numbers here.
score_window == 100

\* Mutant: the newest score is evicted instead of the oldest.
_update_score_history_pop_newest(scores, score) ==
    LET appended == Append(scores, score)
    IN  IF Len(appended) > score_window
        THEN SubSeq(appended, 1, Len(appended) - 1)
        ELSE appended

\* Lines 298-302: append, then pop(0) when the window is exceeded.
_update_score_history(scores, score) ==
    LET appended == Append(scores, score)
    IN  IF Len(appended) > score_window THEN Tail(appended) ELSE appended

\* sorted(): a new list with the same elements in ascending order.
Ascending(a, b) == a < b
Sorted(s) == SortSeq(s, Ascending)

\* sum() of the elements lo..hi.
RECURSIVE SumRange(_, _, _)
SumRange(s, lo, hi) ==
    IF lo > hi THEN 0
    ELSE IF lo = hi THEN s[lo]
    ELSE SumRange(s, lo, (lo + hi) \div 2) + SumRange(s, (lo + hi) \div 2 + 1, hi)
Sum(s) == SumRange(s, 1, Len(s))

\* f"{avg:.1f}" of a non-negative value: the nearest tenth (a tie, which the
\* float format resolves by the binary value, is rounded up here).
FormatOneDecimal(q) == Rat((20 * q.n + q.d) \div (2 * q.d), 10)

\* lst[k] of a Python list, k >= 0: the element, or IndexError.
Index(lst, k) ==
    IF k + 1 \in 1..Len(lst) THEN [raised |-> "", value |-> lst[k + 1]]
    ELSE [raised |-> "IndexError", value |-> 0]

Distribution(text, avg, low, med, high) ==
    [text |-> text, avg |-> avg, low |-> low, med |-> med, high |-> high]

\* Lines 284-296.  Returns [raised, ret, recent_scores]: the exception if any,
\* the text returned (with the values formatted into it) and the list the call
\* leaves in self.recent_scores.
DistributionOf(scores, sorted_scores, after) ==
    LET n == Len(scores)
        low == Index(sorted_scores, n \div 4)
        med == Index(sorted_scores, n \div 2)
        high == Index(sorted_scores, (3 * n) \div 4)
    IN  IF n = 0
        THEN [raised |-> "",
              ret |-> Distribution("No historical data available", None, 0, 0, 0),
              recent_scores |-> scores]
        ELSE IF low.raised # "" \/ med.raised # "" \/ high.raised # ""
        THEN [raised |-> "IndexError", ret |-> NoDistribution, recent_scores |-> after]
        ELSE [raised |-> "",
              ret |-> Distribution("Average: {avg:.1f}, Quartiles: {quartiles}",
                                   FormatOneDecimal(Rat(Sum(scores), n)),
                                   low.value, med.value, high.value),
              recent_scores |-> after]

\* Mutant: the window is sorted in place (self.recent_scores.sort()).
_get_score_distribution_in_place(scores) ==
    DistributionOf(scores, Sorted(scores), Sorted(scores))

\* sorted(self.recent_scores) builds a new list; the window is left as it is.
_get_score_distribution(scores) == DistributionOf(scores, Sorted(scores), scores)

\* The scores of a history: the first MaxVaried are any of ScoreValues, the
\* n-th later one is TailScore(n).
ScoreValues == {30, 90}
TailScore(n) == (37 * n) % 101
ScoreChoices(n) == IF n < MaxVaried THEN ScoreValues ELSE {TailScore(n)}

\* __init__, lines 12-15: an empty window; this scorer has no weights and no
\* thresholds.
InitHistory ==
    /\ weights = EmptyDict
    /\ thresholds = EmptyDict
    /\ recent_scores = <<>>
    /\ NoResult
    /\ pc = "done"
    /\ op = "__init__"
    /\ raw_data = NoData
    /\ NoArgs

\* What the score history's methods never touch.
call_vars ==
    <<weights, thresholds, image_validation, agent_verification, agent_metrics,
      cross_platform, component_scores, total_score, status, score_ret, assessment,
      summary, recommendations, missing_components, result_keys, raw_data,
      metrics_ret, history, validator_vars>>

\* One call of _update_score_history, as determine_listing_status makes it at
\* line 237, run without interruption.
UpdateScoreHistory ==
    /\ Len(recorded) < MaxRecorded
    /\ \E score \in ScoreChoices(Len(recorded)) :
          /\ recent_scores' = _update_score_history(recent_scores, score)
          /\ recorded' = Append(recorded, score)
    /\ op' = "_update_score_history"
    /\ pc' = "done"
    /\ raised' = ""
    /\ distribution' = NoDistribution
    /\ UNCHANGED <<call_vars, thread>>

GetScoreDistribution ==
    /\ LET r == _get_score_distribution(recent_scores)
       IN  /\ distribution' = r.ret
           /\ recent_scores' = r.recent_scores
           /\ raised' = r.raised
    /\ op' = "_get_score_distribution"
    /\ pc' = "done"
    /\ UNCHANGED <<call_vars, thread, recorded>>

NextHistory == UpdateScoreHistory \/ GetScoreDistribution

SpecHistory == InitHistory /\ [][NextHistory]_vars

\* ------------------------------------- score history shared by several threads
\* Each thread runs _update_score_history statement by statement; nothing in
\* the class takes a lock, so the statements of different threads interleave.
AppendScore(t) ==
    /\ thread[t] = "idle"
    /\ Len(recorded) < MaxRecorded
    /\ \E score \in ScoreChoices(Len(recorded)) :
          /\ recent_scores' = Append(recent_scores, score)
          /\ recorded' = Append(recorded, score)
    /\ thread' = [thread EXCEPT ![t] = "appended"]
    /\ UNCHANGED <<call_vars, op, pc, raised, distribution>>

CheckWindow(t) ==
    /\ thread[t] = "appended"
    /\ thread' = [thread EXCEPT ![t] = IF Len(recent_scores) > score_window
                                       THEN "evict" ELSE "idle"]
    /\ UNCHANGED <<call_vars, op, pc, raised, distribution, recent_scores, recorded>>

PopOldest(t) ==
    /\ thread[t] = "evict"
    /\ recent_scores' = Tail(recent_scores)
    /\ thread' = [thread EXCEPT ![t] = "idle"]
    /\ UNCHANGED <<call_vars, op, pc, raised, distribution, recorded>>

NextConcurrent ==
    \E t \in Threads : AppendScore(t) \/ CheckWindow(t) \/ PopOldest(t)

SpecConcurrent == InitHistory /\ [][NextConcurrent]_vars

\* ------------------------------------------------------ calls on the validators
\* A behaviour is a sequence of calls on one AgentValidator and one
\* ImageValidator, as the route handlers make them; the agent validator's
\* result goes on to the rule-based scorer's agent score (lines 49 and 54 of
\* its evaluate_listing).
ListerNames == {"Ana", "Ben", "Cruz"}
XaiAnswers ==
    {XaiAnswer(Text(TRUE, FALSE, TRUE, FALSE)), XaiAnswer(Text(TRUE, TRUE, FALSE, FALSE)),
     XaiFailure("APIError")}
OpenaiAnswers ==
    {OpenaiAnswer(Checks(TRUE, TRUE, FALSE)), OpenaiAnswer(Checks(TRUE, TRUE, TRUE)),
     OpenaiFailure("APIError")}
UrlLists == UNION {[1..n -> Urls] : n \in 0..MaxUrls}

InitValidators ==
    /\ Constructed
    /\ pc = "done"
    /\ op = "__init__"
    /\ raw_data = NoData
    /\ NoArgs

\* What the validators' methods never touch.
scorer_vars ==
    <<weights, thresholds, recent_scores, image_validation, cross_platform,
      component_scores, total_score, status, assessment, summary, recommendations,
      missing_components, result_keys, raw_data, metrics_ret, history, recorded,
      distribution, thread, review_analysis>>

VerifyLister ==
    /\ \E lister_name \in ListerNames, xai \in XaiAnswers, openai \in OpenaiAnswers :
       \E r \in {verify_lister(agent_validation_data, lister_name, xai, openai)} :
           /\ agent_validation_data' = r.agent_validation_data
           /\ validator_ret' = r.ret
           /\ llm' = [xai |-> xai, openai |-> openai]
    /\ op' = "verify_lister"
    /\ pc' = "done"
    /\ raised' = ""
    /\ UNCHANGED <<scorer_vars, agent_verification, agent_metrics, score_ret,
                   image_validation_data, image_urls>>

\* The scorer takes the agent validator's last result.
ScoreAgentVerification ==
    /\ op = "verify_lister"
    /\ \E am \in {_convert_to_agent_metrics(AgentSignal(validator_ret))} :
       \E r \in {_calculate_agent_score(am)} :
           /\ agent_verification' = AgentSignal(validator_ret)
           /\ agent_metrics' = am
           /\ score_ret' = r
           /\ raised' = r.raised
    /\ op' = "_calculate_agent_score"
    /\ pc' = "done"
    /\ UNCHANGED <<scorer_vars, validator_vars>>

ValidateImages ==
    /\ image_validation_data.processed_at < MaxValidations
    /\ \E urls \in UrlLists :
       \E r \in {validate_images(image_validation_data, urls)} :
           /\ image_urls' = urls
           /\ image_validation_data' = r.image_validation_data
           /\ validator_ret' = r.ret
    /\ op' = "validate_images"
    /\ pc' = "done"
    /\ raised' = ""
    /\ UNCHANGED <<scorer_vars, agent_verification, agent_metrics, score_ret,
                   agent_validation_data, llm>>

NextAgentValidator == VerifyLister \/ ScoreAgentVerification

SpecAgentValidator == InitValidators /\ [][NextAgentValidator]_vars

NextImageValidator == ValidateImages

SpecImageValidator == InitValidators /\ [][NextImageValidator]_vars

\* ------------------------------------------- status and total of the LLM scorer
_parse_component_response(response) ==
    IF response.parsed THEN Entry(Rat(response.score, 1), "assessment")
    ELSE Entry(Rat(0, 1), "Failed to parse response")

\* [assessment, status, confidence, uncertainty]
_parse_status_response(response) ==
    IF response.parsed
    THEN [assessment |-> "assessment", status |-> response.status,
          confidence |-> Rat(50, 1), uncertainty |-> response.uncertainty]
    ELSE [assessment |-> "Failed to parse status response", status |-> MANUAL_CHECK,
          confidence |-> Rat(0, 1), uncertainty |-> "HIGH"]

\* The component scores of the model are whole numbers and the weights whole
\* hundredths, so the sums are taken over whole numbers: the weighted sum in
\* hundredths, the plain sum in units.
Whole(q) == q.n \div q.d
RECURSIVE WeightedSumFrom(_, _, _)
WeightedSumFrom(w, evaluations, i) ==
    IF i > Len(ComponentOrder) THEN 0
    ELSE
    LET c == ComponentOrder[i]
    IN  Get(w, c, 25) * Whole(EntryScore(evaluations[c]))
            + WeightedSumFrom(w, evaluations, i + 1)
RECURSIVE ScoreSumFrom(_, _)
ScoreSumFrom(evaluations, i) ==
    IF i > Len(ComponentOrder) THEN 0
    ELSE Whole(EntryScore(evaluations[ComponentOrder[i]]))
             + ScoreSumFrom(evaluations, i + 1)

\* Mutant: the weighted score is taken relative to the newest score of the
\* history.
_calculate_weighted_score_smoothed(scores, evaluations, response) ==
    LET own == IF response.raised = "" /\ response.parsed
               THEN Round2(Rat(WeightedSumFrom(response.weights, evaluations, 1), 100))
               ELSE Round2(Rat(ScoreSumFrom(evaluations, 1), Len(ComponentOrder)))
    IN  IF scores = <<>> \/ scores[Len(scores)] <= 0 THEN own
        ELSE Round2(Rat(100 * Whole(own), scores[Len(scores)]))

\* The weights come from the model's response; when it raises or a line of it
\* cannot be read, the plain average is used.  recent_scores is not read.
_calculate_weighted_score(scores, evaluations, response) ==
    IF response.raised = "" /\ response.parsed
    THEN Round2(Rat(WeightedSumFrom(response.weights, evaluations, 1), 100))
    ELSE Round2(Rat(ScoreSumFrom(evaluations, 1), Len(ComponentOrder)))

\* Mutant: the score is recorded before the status prompt is built.
determine_listing_status_update_first(scores, evaluations, weight_response, status_response) ==
    LET total == _calculate_weighted_score(scores, evaluations, weight_response)
        updated == _update_score_history(scores, Whole(total))
        shown == _get_score_distribution(updated)
        result == _parse_status_response(status_response)
    IN  IF status_response.raised # ""
        THEN [raised |-> status_response.raised, status |-> "", assessment |-> "",
              confidence |-> None, uncertainty |-> "", shown |-> shown.ret,
              recent_scores |-> shown.recent_scores]
        ELSE [raised |-> "",
              status |-> IF result.uncertainty = "HIGH" THEN MANUAL_CHECK
                         ELSE result.status,
              assessment |-> result.assessment,
              confidence |-> total,
              uncertainty |-> result.uncertainty,
              shown |-> shown.ret,
              recent_scores |-> shown.recent_scores]

\* Lines 203-244.  Returns the exception of the status call if it raised,
\* else the parsed result with the status override and the weighted total as
\* 'confidence'; the distribution put into the prompt; and the history after
\* the call.
determine_listing_status(scores, evaluations, weight_response, status_response) ==
    LET total == _calculate_weighted_score(scores, evaluations, weight_response)
        shown == _get_score_distribution(scores)
        result == _parse_status_response(status_response)
    IN  IF status_response.raised # ""
        THEN [raised |-> status_response.raised, status |-> "", assessment |-> "",
              confidence |-> None, uncertainty |-> "", shown |-> shown.ret,
              recent_scores |-> shown.recent_scores]
        ELSE [raised |-> "",
              status |-> IF result.uncertainty = "HIGH" THEN MANUAL_CHECK
                         ELSE result.status,
              assessment |-> result.assessment,
              confidence |-> total,
              uncertainty |-> result.uncertainty,
              shown |-> shown.ret,
              recent_scores |-> _update_score_history(shown.recent_scores,
                                                      Whole(total))]

ReviewCritical == Rec("CRITICAL: Significant negative review patterns detected. Conduct thorough investigation")
ReviewLow == Rec("Investigate recent negative reviews and verify their legitimacy")

\* Lines 366-411: the rule-based scorer's recommendations with the review
\* analysis between the image and the agent signal.
qualitative_generate_recommendations(validation_data) ==
    LET scores == Get(validation_data, "component_evaluations", EmptyDict)
        total == Get(validation_data, "total_score", Rat(0, 1))
        r0 == <<Header(total)>>
        image_score == ScoreOf(scores, "image_validation")
        r1 == IF RLt(image_score, Rat(30, 1)) THEN Append(r0, ImageCritical)
              ELSE IF RLt(image_score, Rat(70, 1)) THEN Append(r0, ImageLow)
              ELSE r0
        review_score == ScoreOf(scores, "review_analysis")
        r2 == IF RLt(review_score, Rat(30, 1)) THEN Append(r1, ReviewCritical)
              ELSE IF RLt(review_score, Rat(60, 1)) THEN Append(r1, ReviewLow)
              ELSE r1
        agent_score == ScoreOf(scores, "agent_verification")
        r3 == IF RLe(agent_score, Rat(0, 1)) THEN Append(r2, AgentUrgent)
              ELSE IF RLt(agent_score, Rat(50, 1)) THEN Append(r2, AgentLow)
              ELSE r2
        platform_score == ScoreOf(scores, "cross_platform")
        r4 == IF RLt(platform_score, Rat(30, 1)) THEN Append(r3, PlatformCritical)
              ELSE IF RLt(platform_score, Rat(50, 1)) THEN Append(r3, PlatformLow)
              ELSE r3
        r5 == IF AllScoresIn(scores, 30, 80) THEN Append(r4, StandardNote) ELSE r4
        r6 == IF r5 = <<>> /\ AllScoresAtLeast(scores, 80)
              THEN Append(r5, AllPassedNote) ELSE r5
    IN  r6

\* The components of validation_data that line 29-30 lists, from the i-th on.
RECURSIVE MissingFrom(_, _)
MissingFrom(validation_data, i) ==
    IF i > Len(ComponentOrder) THEN <<>>
    ELSE
    LET value == validation_data[ComponentOrder[i]]
        rest == MissingFrom(validation_data, i + 1)
    IN  IF value.empty \/ value.error THEN <<ComponentOrder[i]>> \o rest ELSE rest

QualitativeResultKeys ==
    {"total_score", "status", "assessment", "component_evaluations", "summary",
     "recommendations"}
DegradedResultKeys == {"total_score", "status", "assessment", "error"}

\* What one evaluate_listing call of the LLM scorer leaves behind: the
\* exception that left the call if any, the fields of the dict it returned,
\* the distribution put into the status prompt, and the score history.
Outcome(exc, keys, total, st, asmt, evals, summ, recs, miss, shown, scores) ==
    [raised |-> exc, result_keys |-> keys, total_score |-> total, status |-> st,
     assessment |-> asmt, component_evaluations |-> evals, summary |-> summ,
     recommendations |-> recs, missing_components |-> miss, shown |-> shown,
     recent_scores |-> scores]

\* Lines 17-101.
qualitative_evaluate_listing(scores, image, review, agent, platform, answers) ==
    LET fi == _format_image_validation(image)
        fr == _format_review_analysis(review)
        fa == _format_agent_verification(agent)
        fp == PlatformAsGiven(platform)
        validation_data ==
            [c \in Components |->
                IF c = "image_validation" THEN fi
                ELSE IF c = "review_analysis" THEN fr
                ELSE IF c = "agent_verification" THEN fa
                ELSE fp]
        missing == MissingFrom(validation_data, 1)
        propagates(exc) ==
            Outcome(exc, {}, None, "", "", EmptyDict, NoSummary, <<>>, <<>>,
                    NoDistribution, scores)
        degraded(asmt, miss, shown) ==
            Outcome("", DegradedResultKeys, Rat(0, 1), MANUAL_CHECK, asmt, EmptyDict,
                    NoSummary, <<>>, miss, shown, scores)
        evaluations ==
            [c \in Components |-> _parse_component_response(answers.components[c])]
        final == determine_listing_status(scores, evaluations, answers.weights,
                                          answers.status)
    IN  IF fi.raised # "" THEN propagates(fi.raised)
        ELSE IF fr.raised # "" THEN propagates(fr.raised)
        ELSE IF fa.raised # "" THEN propagates(fa.raised)
        ELSE IF fp.raised # "" THEN propagates(fp.raised)
        ELSE IF missing # <<>>
        THEN degraded("Missing or invalid components", missing, NoDistribution)
        ELSE IF answers.assessment.raised # ""
        THEN degraded("Error during evaluation", <<>>, NoDistribution)
        ELSE IF \E c \in Components : answers.components[c].raised # ""
        THEN degraded("Error during evaluation", <<>>, NoDistribution)
        ELSE IF final.raised # ""
        THEN degraded("Error during evaluation", <<>>, final.shown)
        ELSE Outcome("", QualitativeResultKeys, final.confidence, final.status,
                     final.assessment, evaluations,
                     _generate_summary(validation_data),
                     qualitative_generate_recommendations(validation_data),
                     <<>>, final.shown, final.recent_scores)

\* --------------------------------------------- evaluations by the LLM scorer
\* A behaviour is a sequence of evaluate_listing calls on one
\* QualitativeTrustScorer; the model's answers are inputs of each call, and
\* history keeps every call's arguments, answers and outcome.
QualitativeAgents ==
    {AgentArg("None"),
     verify_lister(AgentValidatorInit, "Ana", XaiAnswer(Text(TRUE, FALSE, TRUE, FALSE)),
                   OpenaiAnswer(Checks(TRUE, TRUE, FALSE))).ret,
     verify_lister(AgentValidatorInit, "Ana", XaiAnswer(Text(TRUE, FALSE, TRUE, TRUE)),
                   OpenaiAnswer(Checks(TRUE, TRUE, FALSE))).ret,
     verify_lister(AgentValidatorInit, "Ana", XaiFailure("APIError"),
                   OpenaiAnswer(Checks(TRUE, TRUE, FALSE))).ret}
ValidAgent ==
    verify_lister(AgentValidatorInit, "Ana", XaiAnswer(Text(TRUE, FALSE, TRUE, FALSE)),
                  OpenaiAnswer(Checks(TRUE, TRUE, FALSE))).ret
\* The arguments of a call: all four signals in order, or one of them not.
QualitativeInputs ==
    {<<Arg("valid"), Arg("valid"), ValidAgent, Arg("text")>>}
        \cup {<<Arg(sh), Arg("valid"), ValidAgent, Arg("text")>> :
                 sh \in {"None", "report", "incomplete"}}
        \cup {<<Arg("valid"), Arg(sh), ValidAgent, Arg("text")>> :
                 sh \in {"empty", "mentions_error"}}
        \cup {<<Arg("valid"), Arg("valid"), a, Arg("text")>> : a \in QualitativeAgents}
        \cup {<<Arg("valid"), Arg("valid"), ValidAgent, Arg(sh)>> :
                 sh \in {"empty", "mentions_error", "mapping"}}

ComponentAnswerSets ==
    {[c \in Components |->
         IF c = "image_validation" THEN ComponentAnswer(20)
         ELSE IF c = "review_analysis" THEN ComponentAnswer(60)
         ELSE IF c = "agent_verification" THEN ComponentAnswer(100)
         ELSE ComponentAnswer(40)],
     [c \in Components |->
         IF c = "cross_platform" THEN ComponentUnparsed ELSE ComponentAnswer(60)]}
ComponentFailures ==
    {[c \in Components |->
         IF c = "agent_verification" THEN ComponentRaises ELSE ComponentAnswer(80)]}
WeightAnswers ==
    {WeightRaises, WeightUnparsed,
     WeightAnswer([c \in Components |->
                      IF c = "image_validation" THEN 40
                      ELSE IF c = "review_analysis" THEN 30
                      ELSE IF c = "agent_verification" THEN 20 ELSE 10]),
     WeightAnswer([c \in {"image_validation"} |-> 50])}
StatusAnswers ==
    {StatusUnparsed, StatusAnswer(AUTO_APPROVE, "HIGH"),
     StatusAnswer(AUTO_APPROVE, "LOW"), StatusAnswer(MANUAL_CHECK, "MEDIUM"),
     StatusAnswer(AUTO_REJECT, "LOW")}
\* The first call raises; a component call raises; the status call raises;
\* every call answers.
QualitativeAnswers ==
    {Answers(Asked("APIError"), [c \in Components |-> ComponentUnparsed],
             WeightUnparsed, StatusUnparsed)}
        \cup {Answers(Asked(""), comps, WeightUnparsed, StatusUnparsed) :
                 comps \in ComponentFailures}
        \cup {Answers(Asked(""), comps, w, StatusRaises) :
                 comps \in ComponentAnswerSets, w \in {WeightUnparsed}}
        \cup {Answers(Asked(""), comps, w, st) :
                 comps \in ComponentAnswerSets, w \in WeightAnswers,
                 st \in StatusAnswers}

\* The model is asked only when the call gets to line 74.
AsksModel(image, review, agent, platform) ==
    \E f \in {qualitative_evaluate_listing(<<>>, image, review, agent, platform,
                                            NoAnswers)} :
        f.raised = "" /\ f.missing_components = <<>>

QualitativeEvaluate(image, review, agent, platform, answers) ==
    \* fewer calls than score_window: each call that records a score makes
    \* the history longer
    /\ Len(history) < MaxEvaluations
    /\ \E f \in {qualitative_evaluate_listing(recent_scores, image, review, agent,
                                               platform, answers)} :
           /\ recent_scores' = f.recent_scores
           /\ recorded' = IF f.recent_scores = recent_scores THEN recorded
                          ELSE Append(recorded, f.recent_scores[Len(f.recent_scores)])
           /\ distribution' = f.shown
           /\ component_scores' = f.component_evaluations
           /\ total_score' = f.total_score
           /\ status' = f.status
           /\ assessment' = f.assessment
           /\ summary' = f.summary
           /\ recommendations' = f.recommendations
           /\ missing_components' = f.missing_components
           /\ result_keys' = f.result_keys
           /\ raised' = f.raised
           /\ history' = Append(history,
                                [image_validation |-> image, review_analysis |-> review,
                                 agent_verification |-> agent,
                                 cross_platform |-> platform, llm |-> answers,
                                 before |-> recent_scores, result |-> f])
    /\ op' = "evaluate_listing"
    /\ pc' = "done"
    /\ image_validation' = image
    /\ review_analysis' = review
    /\ agent_verification' = agent
    /\ cross_platform' = platform
    /\ llm' = answers
    /\ UNCHANGED <<weights, thresholds, agent_metrics, score_ret, raw_data, metrics_ret,
                   thread, agent_validation_data, image_validation_data, image_urls,
                   validator_ret>>

QualitativeEvaluateNext ==
    \E inputs \in QualitativeInputs :
    \E answers \in IF AsksModel(inputs[1], inputs[2], inputs[3], inputs[4])
                    THEN QualitativeAnswers ELSE {NoAnswers} :
        QualitativeEvaluate(inputs[1], inputs[2], inputs[3], inputs[4], answers)

NextQualitative == QualitativeEvaluateNext

SpecQualitative == InitHistory /\ [][NextQualitative]_vars


\* ======================================================================= claims
Done(method) == pc = "done" /\ op = method
Abs(x) == IF x < 0 THEN -x ELSE x
InRange(q, lo, hi) == RLe(Rat(lo, 1), q) /\ RLe(q, Rat(hi, 1))

\* C1: for every combination of an image signal (text report, empty, absent),
\* an agent signal (mapping, empty mapping, absent) and a platform signal (text
\* report, empty, absent), evaluate_listing raises nothing and returns a dict
\* holding all seven result fields.
C1_EvaluateListingAlwaysReturns ==
    (/\ Done("evaluate_listing")
     /\ image_validation.shape \in {"text", "empty", "None"}
     /\ agent_verification.shape \in {"dict", "empty", "None"}
     /\ cross_platform.shape \in {"text", "empty", "None"})
    => (raised = "" /\ result_keys = ResultKeys)

\* C2: _determine_status is the threshold function of total_score:
\* AUTO_APPROVE exactly when total_score >= 80, MANUAL_CHECK exactly when
\* 40 <= total_score < 80, AUTO_REJECT exactly when total_score < 40; so
\* 80 -> AUTO_APPROVE, 79.99 -> MANUAL_CHECK, 40 -> MANUAL_CHECK,
\* 39.99 -> AUTO_REJECT.
C2_StatusIsThresholdFunction ==
    (pc = "done" /\ op \in {"_determine_status", "evaluate_listing"} /\ status # "")
    => /\ status \in ListingStatus
       /\ status = AUTO_APPROVE <=> total_score.n >= 80 * total_score.d
       /\ status = MANUAL_CHECK <=> (/\ total_score.n >= 40 * total_score.d
                                     /\ total_score.n < 80 * total_score.d)
       /\ status = AUTO_REJECT <=> total_score.n < 40 * total_score.d
       /\ total_score = Rat(8000, 100) => status = AUTO_APPROVE
       /\ total_score = Rat(7999, 100) => status = MANUAL_CHECK
       /\ total_score = Rat(4000, 100) => status = MANUAL_CHECK
       /\ total_score = Rat(3999, 100) => status = AUTO_REJECT

C2_Witness ==
    /\ Done("_determine_status")
    /\ total_score = Rat(7999, 100)
    /\ status = MANUAL_CHECK

\* C3: _calculate_total_score returns the sum of weight * score over the
\* signals whose entry has a non-null score, with the weights 35, 35 and 30,
\* rounded to 2 decimal places; absent entries and null scores add nothing,
\* and the result is 0 when no entry counts.
C3_Term(scores, component, weight) ==
    IF /\ component \in DOMAIN scores
       /\ ~scores[component].empty
       /\ ~IsNone(scores[component].score)
    THEN Rat(weight * scores[component].score.n, scores[component].score.d)
    ELSE Rat(0, 1)
C3_Sum(scores) ==
    RAdd(RAdd(C3_Term(scores, "image_validation", 35),
              C3_Term(scores, "agent_verification", 35)),
         C3_Term(scores, "cross_platform", 30))
\* r is a multiple of 1/100 and no further than 1/200 from q.
C3_IsRounded(r, q) ==
    /\ r.d > 0
    /\ (100 * r.n) % r.d = 0
    /\ 200 * Abs(q.n * r.d - r.n * q.d) <= q.d * r.d
C3_TotalIsRoundedWeightedSum ==
    Done("_calculate_total_score")
    => /\ C3_IsRounded(total_score, C3_Sum(component_scores))
       /\ (\A c \in DOMAIN component_scores :
              component_scores[c].empty \/ IsNone(component_scores[c].score))
          => REq(total_score, Rat(0, 1))

C3_Witness ==
    /\ Done("_calculate_total_score")
    /\ DOMAIN component_scores = {"image_validation", "agent_verification"}
    /\ IsNone(component_scores["agent_verification"].score)
    /\ ~component_scores["agent_verification"].empty
    /\ REq(component_scores["image_validation"].score, Rat(100, 1))
    /\ REq(total_score, Rat(3500, 1))

\* C4 (as claimed): _calculate_agent_score returns score 0 whenever
\* is_verified = false, whatever has_license, has_reviews and
\* total_checks_passed are.
C4_UnverifiedScoresZero ==
    (Done("_calculate_agent_score") /\ ~agent_metrics.is_verified)
    => REq(score_ret.score, Rat(0, 1))

\* C4 (amended): with is_verified = false, _calculate_agent_score returns
\* min(100, (30*has_license + 20*has_reviews) * total_checks_passed / 3), which
\* is 0 exactly when has_license and has_reviews are both false or
\* total_checks_passed = 0.
C4_UnverifiedScore ==
    (Done("_calculate_agent_score") /\ ~agent_metrics.is_verified)
    => LET base == 30 * BoolInt(agent_metrics.has_license)
                   + 20 * BoolInt(agent_metrics.has_reviews)
           scaled == base * agent_metrics.total_checks_passed
       IN  /\ raised = ""
           /\ 3 * score_ret.score.n
                = (IF scaled > 300 THEN 300 ELSE scaled) * score_ret.score.d
           /\ REq(score_ret.score, Rat(0, 1))
                <=> \/ (~agent_metrics.has_license /\ ~agent_metrics.has_reviews)
                    \/ agent_metrics.total_checks_passed = 0

C4_Witness ==
    /\ Done("_calculate_agent_score")
    /\ ~agent_metrics.is_verified
    /\ agent_metrics.has_license
    /\ agent_metrics.total_checks_passed = 3
    /\ REq(score_ret.score, Rat(30, 1))

\* C5: for non-negative counts and total_count > 0 the image score equals
\* 100*valid/total - 50*duplicate/total - 100*suspicious/total clamped to
\* [0, 100].
C5_ImageScoreFormula ==
    (Done("_calculate_image_score") /\ image_validation.total_count > 0)
    => LET m == image_validation
           twice == 200 * m.valid_count - 100 * m.duplicate_count
                    - 200 * m.suspicious_count
           clamped == IF twice < 0 THEN 0
                      ELSE IF twice > 200 * m.total_count THEN 200 * m.total_count
                      ELSE twice
       IN  /\ raised = ""
           /\ score_ret.score.d > 0
           /\ score_ret.score.n * 2 * m.total_count = clamped * score_ret.score.d

C5_Witness ==
    /\ Done("_calculate_image_score")
    /\ image_validation.total_count = 3
    /\ image_validation.valid_count = 2
    /\ image_validation.duplicate_count = 1
    /\ image_validation.suspicious_count = 0
    /\ REq(score_ret.score, Rat(50, 1))

\* C6: with valid_count and total_count fixed (total_count > 0), the image
\* score never increases when duplicate_count is increased, and never
\* increases when suspicious_count is increased.
C6_ImageScoreMonotone ==
    (Done("_calculate_image_score") /\ image_validation.total_count > 0)
    => /\ \A more \in image_validation.duplicate_count..MaxCount :
            RLe(_calculate_image_score(
                    [image_validation EXCEPT !.duplicate_count = more]).score,
                score_ret.score)
       /\ \A more \in image_validation.suspicious_count..MaxCount :
            RLe(_calculate_image_score(
                    [image_validation EXCEPT !.suspicious_count = more]).score,
                score_ret.score)

\* A score that strictly drops when one more duplicate is counted.
C6_Witness ==
    /\ Done("_calculate_image_score")
    /\ image_validation.total_count > 0
    /\ image_validation.duplicate_count < MaxCount
    /\ RLt(_calculate_image_score(
               [image_validation EXCEPT !.duplicate_count = @ + 1]).score,
           score_ret.score)

\* C7: with total_count = 0 the image scorer returns score 0 and the
\* assessment 'No images provided', and with total_platforms = 0 the platform
\* scorer returns score 0 and 'No cross-platform data available'; neither
\* divides by zero, whatever the other counts are.
C7_NoDataScoresZero ==
    /\ (Done("_calculate_image_score") /\ image_validation.total_count = 0)
       => /\ raised = ""
          /\ REq(score_ret.score, Rat(0, 1))
          /\ score_ret.assessment = "No images provided"
    /\ (Done("_calculate_platform_score") /\ cross_platform.total_platforms = 0)
       => /\ raised = ""
          /\ REq(score_ret.score, Rat(0, 1))
          /\ score_ret.assessment = "No cross-platform data available"

C7_Witness ==
    /\ Done("_calculate_image_score")
    /\ image_validation.total_count = 0
    /\ image_validation.valid_count > 0
    /\ score_ret.assessment = "No images provided"

\* C8: every component score of the image, agent and platform scorers lies in
\* [0, 100], for every metrics record with non-negative counts and
\* total_checks_passed in 0..5, platform records with
\* consistent_count > total_platforms included.
C8_ComponentScoresInRange ==
    (/\ pc = "done"
     /\ op \in {"_calculate_image_score", "_calculate_agent_score",
                "_calculate_platform_score"}
     /\ raised = "")
    => InRange(score_ret.score, 0, 100)

\* C9: in every result of evaluate_listing the first recommendation is
\* 'Overall Trust Score: {total}/100' with {total} the total_score of that
\* same result.
C9_HeaderCarriesTotalScore ==
    (Done("evaluate_listing") /\ recommendations # <<>>)
    => /\ Head(recommendations).text = Header(total_score).text
       /\ REq(Head(recommendations).total, total_score)

\* C10: after the header, the recommendations of an evaluation hold, for the
\* signals in the order image, agent, platform: the signal's critical message
\* if its component score in this evaluation is < 30; otherwise its
\* lower-severity message if the score is < 70 (image), < 50 (agent), < 50
\* (platform); otherwise nothing.  (The agent's 'URGENT' message is taken as
\* its critical message.)
C10_Expected(score, limit, critical, low) ==
    IF RLt(score, Rat(30, 1)) THEN <<critical>>
    ELSE IF RLt(score, Rat(limit, 1)) THEN <<low>>
    ELSE <<>>
C10_IsSignalMessage(rec) ==
    rec \in {ImageCritical, ImageLow, AgentUrgent, AgentLow, PlatformCritical,
             PlatformLow}
C10_PerSignalMessagesFollowScores ==
    (Done("evaluate_listing") /\ recommendations # <<>>)
    => SelectSeq(Tail(recommendations), C10_IsSignalMessage)
         = C10_Expected(component_scores["image_validation"].score, 70,
                        ImageCritical, ImageLow)
           \o C10_Expected(component_scores["agent_verification"].score, 50,
                           AgentUrgent, AgentLow)
           \o C10_Expected(component_scores["cross_platform"].score, 50,
                           PlatformCritical, PlatformLow)

\* C11: when the generator produced no per-signal message and every component
\* score it was given is >= 80, the recommendations end with the 'All
\* validation checks passed' note.
C11_AllPassedNoteEndsList ==
    (/\ pc = "done"
     /\ op \in {"_generate_recommendations", "evaluate_listing"}
     /\ recommendations # <<>>
     /\ SelectSeq(recommendations, C10_IsSignalMessage) = <<>>
     /\ \A c \in Signals :
            /\ c \in DOMAIN component_scores
            /\ RLe(Rat(80, 1), EntryScore(component_scores[c])))
    => recommendations[Len(recommendations)] = AllPassedNote

\* C12: the 'Perform standard verification procedures' note is among the
\* recommendations exactly when every available component score of the
\* evaluation is in [30, 80); it is absent when some score is < 30 or >= 80.
C12_HasStandardNote == \E i \in 1..Len(recommendations) : recommendations[i] = StandardNote
C12_StandardNoteIffAllModerate ==
    (/\ pc = "done"
     /\ op \in {"_generate_recommendations", "evaluate_listing"}
     /\ recommendations # <<>>)
    => (C12_HasStandardNote <=> AllScoresIn(component_scores, 30, 80))

\* C13: when the image, agent and platform signals are all absent or empty,
\* evaluate_listing returns a result with total_score 0, status AUTO_REJECT
\* and missing_components holding exactly the three signals.
C13_AllMissingIsRejected ==
    (/\ Done("evaluate_listing")
     /\ image_validation.shape \in {"None", "empty"}
     /\ agent_verification.shape \in {"None", "empty"}
     /\ cross_platform.shape \in {"None", "empty"})
    => /\ raised = ""
       /\ result_keys = ResultKeys
       /\ REq(total_score, Rat(0, 1))
       /\ status = AUTO_REJECT
       /\ Len(missing_components) = 3
       /\ {missing_components[i] : i \in 1..Len(missing_components)} = Signals

\* C14: _check_missing_components lists a signal exactly when its raw
\* validator output is absent (None, empty) or structurally incomplete (a
\* mapping without the expected key); a well-formed image text report and a
\* well-formed cross-platform text report are not listed.
C14_Listed(signal) ==
    \E i \in 1..Len(missing_components) : missing_components[i] = signal
C14_AbsentOrIncomplete(value) == value.shape \in {"None", "empty", "nokey"}
C14_MissingIffAbsentOrIncomplete ==
    (Done("_check_missing_components") /\ raised = "")
    => /\ C14_Listed("image_validation") <=> C14_AbsentOrIncomplete(image_validation)
       /\ C14_Listed("agent_verification")
            <=> C14_AbsentOrIncomplete(agent_verification)
       /\ C14_Listed("cross_platform") <=> C14_AbsentOrIncomplete(cross_platform)

\* C15: a signal that the completeness checker lists as missing has no entry
\* among the component scores of the evaluation and is not among the
\* components summed by the aggregator.
C15_ListedMissing(signal) ==
    LET listed ==
            IF signal = "image_validation"
            THEN _check_missing_components(image_validation, AgentAbsent("malformed"),
                                           PlatformValue("None")).list
            ELSE IF signal = "agent_verification"
            THEN _check_missing_components(ImageValue("None"), agent_verification,
                                           PlatformValue("None")).list
            ELSE _check_missing_components(ImageValue("None"), AgentAbsent("malformed"),
                                           cross_platform).list
    IN  \E i \in 1..Len(listed) : listed[i] = signal
C15_MissingSignalHasNoEntry ==
    (Done("evaluate_listing") /\ component_scores # EmptyDict)
    => \A signal \in Signals :
          C15_ListedMissing(signal)
          => /\ signal \notin DOMAIN component_scores
             /\ signal \notin ValidComponents(component_scores)

\* C20 (as claimed): the three converters raise nothing and return a metrics
\* record; every field whose label or key is missing from the raw input is
\* zero / false; and when a parse step fails the record is the all-zero /
\* all-false one.
C20_HasLabel(label) ==
    /\ raw_data.shape = "text"
    /\ \E i \in 1..Len(raw_data.lines) : raw_data.lines[i].label = label
C20_ParseFails ==
    /\ raw_data.shape = "text"
    /\ \E i \in 1..Len(raw_data.lines) :
          raw_data.lines[i].label \in ImageLabels /\ ~raw_data.lines[i].parses
C20_ImageField(label) ==
    IF label = "Valid images:" THEN metrics_ret.valid_count
    ELSE IF label = "Duplicate images:" THEN metrics_ret.duplicate_count
    ELSE IF label = "Suspicious images:" THEN metrics_ret.suspicious_count
    ELSE metrics_ret.total_count
C20_AgentPart ==
    Done("_convert_to_agent_metrics")
    => /\ raised = ""
       /\ DOMAIN agent_metrics
            = {"is_verified", "has_license", "has_reviews", "total_checks_passed"}
       /\ agent_verification.shape # "dict"
            => agent_metrics = AgentVerificationMetrics(FALSE, FALSE, FALSE, 0)
       /\ agent_verification.shape = "dict"
            => /\ ~agent_verification.verified => ~agent_metrics.is_verified
               /\ ~agent_verification.license => ~agent_metrics.has_license
               /\ ~agent_verification.review => ~agent_metrics.has_reviews
               /\ (/\ ~agent_verification.verified /\ ~agent_verification.license
                   /\ ~agent_verification.review /\ ~agent_verification.experience
                   /\ ~agent_verification.specialization)
                  => agent_metrics.total_checks_passed = 0
C20_PlatformFails == raw_data.shape = "text" \/ raw_data.bad_key
C20_MissingFieldsDefaultToZero ==
    /\ Done("_convert_to_image_metrics")
       => /\ raised = ""
          /\ metrics_ret.shape = "metrics"
          /\ \A label \in ImageLabels :
                ~C20_HasLabel(label) => C20_ImageField(label) = 0
          /\ C20_ParseFails => metrics_ret = ImageValidationMetrics(0, 0, 0, 0)
    /\ C20_AgentPart
    /\ Done("_convert_to_platform_metrics")
       => /\ raised = ""
          /\ metrics_ret.shape = "metrics"
          /\ (raw_data.consistent_keys = 0 /\ raw_data.inconsistent_keys = 0)
                => metrics_ret = CrossPlatformMetrics(0, 0, 0)
          /\ C20_PlatformFails => metrics_ret = CrossPlatformMetrics(0, 0, 0)

\* C20 (amended): the three converters raise nothing and return a metrics
\* record; when the input is no text / no mapping or a parse step fails the
\* record is the all-zero / all-false one; otherwise every count (boolean)
\* whose label (token, key) is missing is zero (false), and the total is
\* derived: total_count is a non-zero value read from a 'Total images
\* processed:' line or else valid + duplicate + suspicious, and
\* total_platforms is consistent_count + inconsistent_count or, when that is
\* zero, the number of keys of the mapping.
C20_ConvertersNeverRaise ==
    /\ Done("_convert_to_image_metrics")
       => /\ raised = ""
          /\ metrics_ret.shape = "metrics"
          /\ (raw_data.shape # "text" \/ C20_ParseFails)
                => metrics_ret = ImageValidationMetrics(0, 0, 0, 0)
          /\ (raw_data.shape = "text" /\ ~C20_ParseFails)
                => /\ \A label \in ImageLabels \ {"Total images processed:"} :
                         IF C20_HasLabel(label)
                         THEN \E i \in 1..Len(raw_data.lines) :
                                 /\ raw_data.lines[i].label = label
                                 /\ raw_data.lines[i].n = C20_ImageField(label)
                         ELSE C20_ImageField(label) = 0
                   /\ \/ /\ metrics_ret.total_count # 0
                         /\ \E i \in 1..Len(raw_data.lines) :
                               /\ raw_data.lines[i].label = "Total images processed:"
                               /\ raw_data.lines[i].n = metrics_ret.total_count
                      \/ metrics_ret.total_count
                           = metrics_ret.valid_count + metrics_ret.duplicate_count
                             + metrics_ret.suspicious_count
                   /\ ~C20_HasLabel("Total images processed:")
                         => metrics_ret.total_count
                              = metrics_ret.valid_count + metrics_ret.duplicate_count
                                + metrics_ret.suspicious_count
    /\ C20_AgentPart
    /\ Done("_convert_to_platform_metrics")
       => /\ raised = ""
          /\ metrics_ret.shape = "metrics"
          /\ (raw_data.shape # "dict" \/ C20_PlatformFails)
                => metrics_ret = CrossPlatformMetrics(0, 0, 0)
          /\ (raw_data.shape = "dict" /\ ~C20_PlatformFails)
                => /\ (raw_data.consistent_keys = 0 /\ raw_data.inconsistent_keys = 0)
                         => /\ metrics_ret.consistent_count = 0
                            /\ metrics_ret.inconsistent_count = 0
                   /\ raw_data.inconsistent_keys = 0
                         => metrics_ret.inconsistent_count = 0
                   /\ metrics_ret.total_platforms
                        = IF metrics_ret.consistent_count
                               + metrics_ret.inconsistent_count # 0
                          THEN metrics_ret.consistent_count
                               + metrics_ret.inconsistent_count
                          ELSE raw_data.consistent_keys + raw_data.inconsistent_keys
                               + raw_data.other_keys

\* A report whose first line is read and whose second line fails to parse:
\* the record is all zero, the count read first is dropped.
C20_Witness ==
    /\ Done("_convert_to_image_metrics")
    /\ raw_data.shape = "text"
    /\ Len(raw_data.lines) = 2
    /\ raw_data.lines[1] = Line("Valid images:", TRUE, 2)
    /\ raw_data.lines[2] = Line("Duplicate images:", FALSE, 0)
    /\ metrics_ret = ImageValidationMetrics(0, 0, 0, 0)

\* C19: the rule-based evaluate_listing is stateless: after any sequence of
\* evaluations on one instance weights, thresholds and recent_scores have
\* their initial values, and two evaluations of the sequence with identical
\* inputs gave identical total_score, status, component evaluations,
\* recommendations and missing_components (and ended the same way), whatever
\* was evaluated in between.
C19_SameInputs(a, b) ==
    /\ a.image_validation = b.image_validation
    /\ a.agent_verification = b.agent_verification
    /\ a.cross_platform = b.cross_platform
C19_SameResults(f, g) ==
    /\ f.total_score = g.total_score
    /\ f.status = g.status
    /\ f.component_scores = g.component_scores
    /\ f.recommendations = g.recommendations
    /\ f.missing_components = g.missing_components
    /\ f.result_keys = g.result_keys
    /\ f.raised = g.raised
LastOf(s, k) == SubSeq(s, Len(s) - k + 1, Len(s))
Min(a, b) == IF a < b THEN a ELSE b

\* C16: after n calls of _update_score_history on a scorer whose history
\* started empty, recent_scores holds exactly the last min(n, 100) recorded
\* scores in insertion order; after 105 calls it has 100 entries and the 5
\* oldest scores are gone.
C16_WindowHoldsLastScores ==
    /\ recent_scores = LastOf(recorded, Min(Len(recorded), 100))
    /\ Len(recorded) = 105
       => /\ Len(recent_scores) = 100
          /\ recent_scores[1] = recorded[6]
          /\ recent_scores[100] = recorded[105]

C16_Witness ==
    /\ op = "_update_score_history"
    /\ Len(recorded) = 105
    /\ Len(recent_scores) = 100
    /\ recent_scores[1] = recorded[6]

\* C17: with several evaluations running concurrently against one scorer
\* instance the append-then-evict steps are serialized: an evaluation that is
\* not in the middle of its own update never finds more than 100 entries in
\* recent_scores, and whenever no update is under way recent_scores holds
\* exactly the last min(n, 100) recorded scores, so that every eviction took
\* the oldest score and no score was lost before 100 later ones were recorded.
C17_UnderWay == {t \in Threads : thread[t] # "idle"}
C17_UpdatesAreSerialized ==
    /\ C17_UnderWay # Threads => Len(recent_scores) <= 100
    /\ C17_UnderWay = {}
       => recent_scores = LastOf(recorded, Min(Len(recorded), 100))

\* C18: _get_score_distribution returns 'No historical data available' for an
\* empty history; for a history of n >= 1 scores it raises nothing and returns
\* the mean (to one decimal) and the elements of the sorted window at the
\* positions n//4, n//2 and 3n//4, which are valid positions; and the call
\* leaves recent_scores as it was.
C18_Below(v) == Cardinality({i \in 1..Len(recent_scores) : recent_scores[i] < v})
C18_UpTo(v) == Cardinality({i \in 1..Len(recent_scores) : recent_scores[i] <= v})
\* v is the element at position k (from 0) of the sorted window.
C18_IsAtSortedPosition(v, k) == C18_Below(v) <= k /\ k < C18_UpTo(v)
C18_Returned ==
    (pc = "done" /\ op = "_get_score_distribution")
    => LET n == Len(recent_scores)
       IN  /\ raised = ""
           /\ n = 0 => distribution.text = "No historical data available"
           /\ n >= 1
              => /\ distribution.text = "Average: {avg:.1f}, Quartiles: {quartiles}"
                 /\ {n \div 4, n \div 2, (3 * n) \div 4} \subseteq 0..(n - 1)
                 /\ C18_IsAtSortedPosition(distribution.low, n \div 4)
                 /\ C18_IsAtSortedPosition(distribution.med, n \div 2)
                 /\ C18_IsAtSortedPosition(distribution.high, (3 * n) \div 4)
                 /\ 20 * Abs(distribution.avg.n * n
                             - Sum(recent_scores) * distribution.avg.d)
                      <= distribution.avg.d * n
C18_WindowIsLeftAlone ==
    op' = "_get_score_distribution" => recent_scores' = recent_scores
C18_ScoreDistribution == []C18_Returned /\ [][C18_WindowIsLeftAlone]_vars

\* A full, unsorted window whose three positions hold three different scores.
C18_Witness ==
    /\ pc = "done" /\ op = "_get_score_distribution"
    /\ Len(recent_scores) = 100
    /\ recent_scores # Sorted(recent_scores)
    /\ distribution.low < distribution.med
    /\ distribution.med < distribution.high

\* C21: when a label occurs on more than one line of an image text report,
\* _convert_to_image_metrics takes the value of the first line carrying it;
\* later lines with the same label do not change the value.
C21_FirstLineWith(label) ==
    CHOOSE i \in 1..Len(raw_data.lines) :
        /\ raw_data.lines[i].label = label
        /\ \A j \in 1..(i - 1) : raw_data.lines[j].label # label
C21_FirstMatchWins ==
    (Done("_convert_to_image_metrics") /\ raw_data.shape = "text" /\ ~C20_ParseFails)
    => \A label \in ImageLabels \ {"Total images processed:"} :
          C20_HasLabel(label)
          => C20_ImageField(label) = raw_data.lines[C21_FirstLineWith(label)].n

\* C22: every record _convert_to_image_metrics returns has total_count >=
\* valid_count + duplicate_count + suspicious_count, and total_count equals
\* that sum when the report carries no 'Total images processed' value or
\* reports 0.
C22_Counted ==
    metrics_ret.valid_count + metrics_ret.duplicate_count
        + metrics_ret.suspicious_count
C22_TotalCoversCounts ==
    Done("_convert_to_image_metrics")
    => /\ metrics_ret.total_count >= C22_Counted
       /\ (\/ ~C20_HasLabel("Total images processed:")
           \/ \A i \in 1..Len(raw_data.lines) :
                 raw_data.lines[i].label = "Total images processed:"
                 => raw_data.lines[i].n = 0)
          => metrics_ret.total_count = C22_Counted

\* C23: every record _convert_to_platform_metrics returns has non-negative
\* counts and total_platforms >= consistent_count + inconsistent_count.
C23_PlatformTotalCoversCounts ==
    Done("_convert_to_platform_metrics")
    => /\ metrics_ret.shape = "metrics"
       /\ metrics_ret.consistent_count >= 0
       /\ metrics_ret.inconsistent_count >= 0
       /\ metrics_ret.total_platforms >= 0
       /\ metrics_ret.total_platforms
            >= metrics_ret.consistent_count + metrics_ret.inconsistent_count

\* A mapping with a key counted in both lists: the total exceeds the number
\* of keys and is exactly the sum of the two counts.
C23_Witness ==
    /\ Done("_convert_to_platform_metrics")
    /\ raw_data = PlatformData("dict", 1, 1, 1, FALSE)
    /\ metrics_ret = CrossPlatformMetrics(2, 1, 3)

\* C26: the consistent and the inconsistent count are disjoint: a key counted
\* in inconsistent_count is not counted in consistent_count, so a mapping
\* whose only list/dict-valued keys are inconsistent ones gives
\* consistent_count = 0 and a platform score of 0.
C26_CountsAreDisjoint ==
    (/\ Done("_convert_to_platform_metrics")
     /\ raw_data.shape = "dict"
     /\ ~raw_data.bad_key)
    => /\ metrics_ret.consistent_count = raw_data.consistent_keys
       /\ metrics_ret.inconsistent_count = raw_data.inconsistent_keys
       /\ (raw_data.consistent_keys = 0 /\ raw_data.inconsistent_keys > 0)
          => /\ metrics_ret.consistent_count = 0
             /\ REq(_calculate_platform_score(metrics_ret).score, Rat(0, 1))


\* C24: the score history never alters the current score: two evaluations of
\* the LLM scorer with the same component scores and the same weight response
\* have the same total_score, whatever recent_scores held when they ran.
C24_Successful(i) == history[i].result.result_keys = QualitativeResultKeys
C24_SameScoring(i, j) ==
    /\ C24_Successful(i)
    /\ C24_Successful(j)
    /\ history[i].result.component_evaluations = history[j].result.component_evaluations
    /\ history[i].llm.weights = history[j].llm.weights
C24_HistoryNeverAltersScore ==
    \A i, j \in 1..Len(history) :
        C24_SameScoring(i, j)
            => history[i].result.total_score = history[j].result.total_score
C24_Witness ==
    \E i, j \in 1..Len(history) :
        /\ C24_SameScoring(i, j)
        /\ history[i].before # history[j].before
        /\ history[i].result.total_score = history[j].result.total_score

\* C25: when an external call inside verify_lister fails, verify_lister
\* returns the error record ('Verification unavailable') and leaves
\* agent_validation_data as it was, and the rule-based scorer turns that
\* record into metrics that are all false / 0 and into an agent score of 0.
C25_ExternalCallFailed ==
    /\ op \in {"verify_lister", "_calculate_agent_score"}
    /\ (llm.xai.raised # "" \/ llm.openai.raised # "")
C25_ErrorRecordReturned ==
    C25_ExternalCallFailed =>
        /\ validator_ret.kind = "agent"
        /\ \E e \in {llm.xai.raised, llm.openai.raised} :
               validator_ret.agent_verification =
                   AgentRecord(Text(FALSE, TRUE, FALSE, FALSE), "None", "Unknown",
                               NoChecks, e)
C25_ScoredZero ==
    (C25_ExternalCallFailed /\ op = "_calculate_agent_score") =>
        /\ agent_metrics = AgentVerificationMetrics(FALSE, FALSE, FALSE, 0)
        /\ raised = ""
        /\ REq(score_ret.score, Rat(0, 1))
C25_DataLeftAlone ==
    (C25_ExternalCallFailed' /\ op' = "verify_lister")
        => agent_validation_data' = agent_validation_data
C25_FailureIsDegradedValue ==
    /\ [](C25_ErrorRecordReturned /\ C25_ScoredZero)
    /\ [][C25_DataLeftAlone]_vars
C25_Witness ==
    /\ C25_ExternalCallFailed
    /\ op = "_calculate_agent_score"
    /\ agent_validation_data # AgentValidatorInit
    /\ validator_ret.agent_verification.error = "APIError"
    /\ REq(score_ret.score, Rat(0, 1))

\* C27: after any sequence of validate_images calls on one ImageValidator,
\* the report of a call describes that call's URLs only: every URL is counted
\* in exactly one of valid / duplicate / suspicious, so the three counts add
\* up to 'Total images processed', which is the number of URLs of the call.
C27_ReportDescribesOnlyThisCall ==
    Done("validate_images") =>
        /\ validator_ret.valid + validator_ret.duplicates + validator_ret.suspicious
               = validator_ret.total
        /\ validator_ret.total = Len(image_urls)

\* C28: each evaluate_listing call of the LLM scorer appends at most one
\* value to recent_scores: none when a component is missing or has an error
\* (a signal that makes the call raise included) or when a model call raises
\* before the status response is there, exactly one, the weighted total,
\* otherwise; and the distribution put into the status prompt is that of the
\* history before the call, without the call's own score.
C28_RecordsNothing(e) ==
    \/ e.result.raised # ""
    \/ e.result.missing_components # <<>>
    \/ e.llm.assessment.raised # ""
    \/ \E c \in Components : e.llm.components[c].raised # ""
    \/ e.llm.status.raised # ""
C29_ComponentHasError ==
    \/ missing_components # <<>>
    \/ /\ agent_verification.kind = "agent"
       /\ agent_verification.agent_verification.error # ""
C29_StatusAnswered == result_keys = QualitativeResultKeys
C29_ExceptionOccurred ==
    \/ raised # ""
    \/ llm.assessment.raised # ""
    \/ \E c \in Components : llm.components[c].raised # ""
    \/ llm.status.raised # ""
C29_DegradedIsManualCheck ==
    Done("evaluate_listing") =>
        /\ (C29_StatusAnswered /\ llm.status.parsed /\ llm.status.uncertainty = "HIGH")
               => status = MANUAL_CHECK
        /\ (C29_StatusAnswered /\ ~llm.status.parsed) => status = MANUAL_CHECK
        /\ C29_ComponentHasError
               => (status = MANUAL_CHECK /\ total_score = Rat(0, 1))
        /\ C29_ExceptionOccurred
               => (status = MANUAL_CHECK /\ total_score = Rat(0, 1))

\* C30: in every successful result of evaluate_listing the summary reports
\* the result's total score and status and has one score line for each entry
\* of component_evaluations.
C30_SummaryMatchesResult ==
    (Done("evaluate_listing") /\ raised = "" /\ "summary" \in result_keys) =>
        /\ REq(summary.total_score, total_score)
        /\ summary.status = status
        /\ Len(summary.lines) = Cardinality(DOMAIN component_scores)

====
